---- MODULE Spec2Model ----
(***************************************************************************)
(* Verification model of the media-tracking MCP servers                    *)
(* (adamcodes716/mcp-movie-finder).                                         *)
(*                                                                         *)
(* Three specifications share the state below:                             *)
(*   SpecHttp    the HTTP variants: bearer gate and method dispatch         *)
(*   Spec        the stdio media server: tool handlers over MediaDatabase,  *)
(*               interleaved at their await points                          *)
(*   SpecPersist the persistence interface: SQLite MediaDatabase, the       *)
(*               MySQL adapter and the in-memory MovieStore                 *)
(*                                                                         *)
(* Encoding of JavaScript values: an absent / undefined / null number is    *)
(* Null (-1), an absent string is NullS, a tri-state boolean argument is    *)
(* one of "undefined", "true", "false".  Date.now() and                     *)
(* new Date().toISOString() are both read off the clock `now`.              *)
(***************************************************************************)
EXTENDS Integers, Sequences, FiniteSets, TLC

VARIABLES
    variant,   \* which server program / persistence backend is running
    media,     \* base table: sequence of item rows (insertion order)
    ext,       \* extension table `movies`: set of rows keyed by mediaId
    now,       \* wall clock in milliseconds (Date.now())
    last,      \* SpecHttp: the last HTTP exchange (request and response)
    req,       \* Spec / SpecPersist: in-flight handler state per request slot
    resp       \* Spec / SpecPersist: last reply per request slot

vars == <<variant, media, ext, now, last, req, resp>>

----------------------------------------------------------------------------
\* Bounds of the model

\* number of clock ticks explored after start-up
MaxTicks == 1
\* cap on the number of rows in the base table
MaxItems == 4
\* cap on the number of rows the HTTP variants add to their initial store
MaxAdds == 1
\* number of request slots that may be in flight at once
MaxReqs == 2
\* number of items stored or being added while calls race
MaxRaceItems == 2
\* number of values Math.random() is drawn from
MaxRandom == 0

Reqs == 1..MaxReqs

----------------------------------------------------------------------------
\* Value encoding

Null == -1
NullS == "null"
Now0 == 10
CurrentYear == 2025

Tri == {"undefined", "true", "false"}

\* JavaScript truthiness of a number-or-undefined value
Truthy(n) == n # Null /\ n # 0

\* a || b on numbers
OrElse(a, b) == IF Truthy(a) THEN a ELSE b

\* SAMPLE_MOVIES / mockMovies
SAMPLE_MOVIES ==
    << [id |-> 1, type |-> "movie", title |-> "The Matrix", year |-> 1999,
        watched |-> TRUE, rating |-> 9, dateWatched |-> Null, notes |-> NullS,
        genres |-> NullS],
       [id |-> 2, type |-> "movie", title |-> "Inception", year |-> 2010,
        watched |-> TRUE, rating |-> 8, dateWatched |-> Null, notes |-> NullS,
        genres |-> NullS],
       [id |-> 3, type |-> "movie", title |-> "Blade Runner 2049", year |-> 2017,
        watched |-> FALSE, rating |-> Null, dateWatched |-> Null, notes |-> NullS,
        genres |-> NullS] >>

\* the row http-server-db.ts inserts while testing its connection at start-up
TestMovie ==
    [id |-> Now0, type |-> "movie", title |-> "Database Test Movie", year |-> 2025,
     watched |-> FALSE, rating |-> Null, dateWatched |-> Null, notes |-> NullS,
        genres |-> NullS]

----------------------------------------------------------------------------
\* Helpers over the base table

Ids(m) == {m[i].id : i \in 1..Len(m)}

\* index of the first row with the given id, 0 when there is none
RECURSIVE FirstIndex(_, _, _)
FirstIndex(m, id, i) ==
    IF i > Len(m) THEN 0
    ELSE IF m[i].id = id THEN i
    ELSE FirstIndex(m, id, i + 1)

IndexOf(m, id) == FirstIndex(m, id, 1)

\* getMediaById / MovieStore.findById: the first row with that id, as a set
\* (empty when the id is unknown)
GetMediaById(m, id) ==
    IF IndexOf(m, id) = 0 THEN {} ELSE {m[IndexOf(m, id)]}

----------------------------------------------------------------------------
\* MediaDatabase (SQLite, drizzle)

\* the constraints of a media table that also declares
\* UNIQUE(title, type, year)
InsertMediaOkUnique(m, row) ==
    /\ row.id \notin Ids(m)
    /\ row.type \in {"movie", "book", "tv_show"}
    /\ row.title # NullS
    /\ (row.rating = Null \/ row.rating \in 1..10)
    /\ \A i \in 1..Len(m) :
          ~(m[i].title = row.title /\ m[i].type = row.type /\ m[i].year = row.year)

\* the constraints of CREATE TABLE media: PRIMARY KEY id, type CHECK,
\* title NOT NULL, CHECK(rating >= 1 AND rating <= 10)
InsertMediaOk(m, row) ==
    /\ row.id \notin Ids(m)
    /\ row.type \in {"movie", "book", "tv_show"}
    /\ row.title # NullS
    /\ (row.rating = Null \/ row.rating \in 1..10)

\* PRIMARY KEY media_id of the extension table
InsertExtOk(e, x) == x.mediaId \notin {y.mediaId : y \in e}

\* addMedia: both inserts inside one db.transaction; `specific` is a set
\* holding the extension row, or empty when no specificData is passed.
\* A failing statement throws and the transaction rolls back.
AddMedia(m, e, row, specific) ==
    IF InsertMediaOk(m, row) /\ \A x \in specific : InsertExtOk(e, x)
    THEN [ok |-> TRUE, media |-> Append(m, row), ext |-> e \cup specific]
    ELSE [ok |-> FALSE, media |-> m, ext |-> e]

\* findMediaByTitle(title, type?, year?): first row with that title, and that
\* type when given, and that year when the year argument is truthy
RECURSIVE FindFrom(_, _, _, _, _)
FindFrom(m, title, type, year, i) ==
    IF i > Len(m) THEN {}
    ELSE IF /\ m[i].title = title
            /\ (type = NullS \/ m[i].type = type)
            /\ (~Truthy(year) \/ m[i].year = year)
         THEN {m[i]}
         ELSE FindFrom(m, title, type, year, i + 1)

FindMediaByTitle(m, title, type, year) == FindFrom(m, title, type, year, 1)

\* An update bag: every key a caller may set; a key whose value is
\* undefined is encoded by Null / NullS / "undefined".
NoUpdates ==
    [title |-> NullS, year |-> Null, watched |-> "undefined", rating |-> Null,
     notes |-> NullS, dateWatched |-> Null, director |-> NullS, cast |-> NullS]

\* a SET clause that also writes the kind column, as "movie"
SetRowRetype(row, u) ==
    [row EXCEPT
       !.type = "movie",
       !.title = IF u.title # NullS THEN u.title ELSE @,
       !.year = IF u.year # Null THEN u.year ELSE @,
       !.watched = IF u.watched # "undefined" THEN (u.watched = "true") ELSE @,
       !.rating = IF u.rating # Null THEN u.rating ELSE @,
       !.notes = IF u.notes # NullS THEN u.notes ELSE @,
       !.dateWatched = IF u.dateWatched # Null THEN u.dateWatched ELSE @]

\* the SET clause applied to one row: only keys that are not undefined
SetRow(row, u) ==
    [row EXCEPT
       !.title = IF u.title # NullS THEN u.title ELSE @,
       !.year = IF u.year # Null THEN u.year ELSE @,
       !.watched = IF u.watched # "undefined" THEN (u.watched = "true") ELSE @,
       !.rating = IF u.rating # Null THEN u.rating ELSE @,
       !.notes = IF u.notes # NullS THEN u.notes ELSE @,
       !.dateWatched = IF u.dateWatched # Null THEN u.dateWatched ELSE @]

\* UPDATE ... WHERE id = ?: every row with that id
UpdateWhereId(m, id, u) ==
    [i \in 1..Len(m) |-> IF m[i].id = id THEN SetRow(m[i], u) ELSE m[i]]

\* a mediaUpdateData that stamps dateWatched whenever updates.watched is true
MediaUpdateDataAlwaysStamps(u, snapshot, t) ==
    [u EXCEPT !.dateWatched = IF u.watched = "true" THEN t ELSE @]

\* updateMedia, second half (the transaction): mediaUpdateData is the bag's
\* defined keys, plus dateWatched = now when updates.watched is true and the
\* row read by getMediaById (`snapshot`) had no dateWatched
MediaUpdateData(u, snapshot, t) ==
    [u EXCEPT !.dateWatched =
        IF u.watched = "true" /\ snapshot.dateWatched = Null THEN t ELSE @]

UpdateMediaWrite(m, id, u, snapshot, t) ==
    LET d == MediaUpdateData(u, snapshot, t)
        n == UpdateWhereId(m, id, d)
    IN  IF \A i \in 1..Len(n) : m[i].id = id => (n[i].rating = Null \/ n[i].rating \in 1..10)
        THEN [ok |-> TRUE, media |-> n]
        ELSE [ok |-> FALSE, media |-> m]

----------------------------------------------------------------------------
\* MovieStore (in-memory list)

\* addMovie: push, no uniqueness check
StoreAddMovie(m, row) == Append(m, row)

\* updateMovie: findById, then rating and watched when not undefined
StoreUpdateMovie(m, id, u) ==
    LET i == IndexOf(m, id)
    IN  IF i = 0 THEN m
        ELSE [m EXCEPT ![i] =
                [@ EXCEPT
                   !.rating = IF u.rating # Null THEN u.rating ELSE @,
                   !.watched = IF u.watched # "undefined" THEN (u.watched = "true") ELSE @]]

----------------------------------------------------------------------------
\* HTTP variants: bearer gate and method dispatch of POST /mcp

API_KEY == "abc"

\* An Authorization header is <<scheme, credentials>>, or <<>> when the
\* request carries none: startsWith("Bearer ") tests the scheme and
\* substring(7) yields the credentials.
Headers ==
    { <<>>, <<"Basic", "abc">>, <<"bearer", "abc">>,
      <<"Bearer", "wrong">>, <<"Bearer", "">>, <<"Bearer", "abc">> }

HttpVariants == {"simple", "mock", "db", "unified", "readonly", "proxy"}

\* status answered for a wrong token by each variant
WrongTokenStatus(v) == IF v = "readonly" THEN 401 ELSE 403

\* AuthStatus with the token comparison left out
AuthStatusAnyToken(v, h) ==
    IF h = <<>> \/ h[1] # "Bearer" THEN 401 ELSE 200

\* the authentication prologue of fetch(): 200 stands for "passed"
AuthStatus(v, h) ==
    IF h = <<>> \/ h[1] # "Bearer" THEN 401
    ELSE IF h[2] # API_KEY THEN WrongTokenStatus(v)
    ELSE 200

\* outcome of a handler that does not touch the store
NoAccess(m, e, result) ==
    [media |-> m, ext |-> e, touched |-> FALSE, result |-> result]

ReadOnly(m, e, result) ==
    [media |-> m, ext |-> e, touched |-> TRUE, result |-> result]

\* MovieUtils.createMovie as called by mcpHandlers.add_movie of the
\* MovieStore and mock variants
CreateMovie(p, t) ==
    [id |-> t, type |-> "movie",
     title |-> IF p.title # NullS THEN p.title ELSE "Unknown Movie",
     year |-> OrElse(p.year, CurrentYear),
     watched |-> (p.watched # "false"),
     rating |-> IF Truthy(p.rating) THEN p.rating ELSE Null,
     dateWatched |-> Null, notes |-> NullS, genres |-> NullS]

\* mcpHandlers.add_movie of the MovieStore / mock variants
StoreAddHandler(p, m, e, t) ==
    [media |-> StoreAddMovie(m, CreateMovie(p, t)), ext |-> e,
     touched |-> TRUE, result |-> "added"]

\* mcpHandlers.update_movie of the MovieStore / mock variants
StoreUpdateHandler(p, m, e) ==
    [media |-> StoreUpdateMovie(m, p.id, [rating |-> p.rating, watched |-> p.watched]),
     ext |-> e, touched |-> TRUE,
     result |-> IF IndexOf(m, p.id) = 0 THEN "notfound" ELSE "updated"]

\* mediaData built by add_movie of the database-backed HTTP variants
DbMediaData(p, t) ==
    [id |-> t, type |-> "movie", title |-> p.title, year |-> p.year,
     watched |-> (p.watched # "false"), rating |-> p.rating,
     dateWatched |-> IF p.watched # "false" THEN t ELSE Null,
     notes |-> p.notes, genres |-> NullS]

\* add_movie of http-server-db.ts and of the unified server: addMedia inside
\* try/catch
DbAddHandler(p, m, e, t) ==
    LET r == AddMedia(m, e, DbMediaData(p, t),
                      {[mediaId |-> t, director |-> NullS, cast |-> NullS]})
    IN  [media |-> r.media, ext |-> r.ext, touched |-> TRUE,
         result |-> IF r.ok THEN "added" ELSE "error"]

\* update_movie of the database-backed HTTP variants: updateMedia with
\* {rating, watched, notes}, run to completion
DbUpdateHandler(p, m, e, t) ==
    LET found == GetMediaById(m, p.id)
        u == [NoUpdates EXCEPT !.rating = p.rating, !.watched = p.watched,
                               !.notes = p.notes]
    IN  IF found = {} THEN ReadOnly(m, e, "notfound")
        ELSE LET snap == CHOOSE x \in found : TRUE
                 r == UpdateMediaWrite(m, p.id, u, snap, t)
             IN  [media |-> r.media, ext |-> e, touched |-> TRUE,
                  result |-> IF r.ok THEN "updated" ELSE "error"]

\* the if / else-if chain on body.method of each variant
Dispatch(v, meth, p, m, e, t) ==
    CASE v \in {"simple", "mock"} ->
           IF meth \in {"list_media", "list_movies"} THEN ReadOnly(m, e, "listed")
           ELSE IF meth \in {"add_movie_to_watchlist", "add_movie"}
                THEN StoreAddHandler(p, m, e, t)
           ELSE IF meth \in {"get_smart_recommendations", "get_recommendations"}
                THEN ReadOnly(m, e, "recommended")
           ELSE IF meth \in {"update_movie", "mark_as_watched"}
                THEN StoreUpdateHandler(p, m, e)
           ELSE NoAccess(m, e, "unknown")
      [] v = "db" ->
           IF meth \in {"list_media", "list_movies"} THEN ReadOnly(m, e, "listed")
           ELSE IF meth \in {"add_movie_to_watchlist", "add_movie"}
                THEN DbAddHandler(p, m, e, t)
           ELSE IF meth \in {"get_smart_recommendations", "get_recommendations"}
                THEN ReadOnly(m, e, "recommended")
           ELSE IF meth \in {"update_movie", "mark_as_watched"}
                THEN DbUpdateHandler(p, m, e, t)
           ELSE NoAccess(m, e, "unknown")
      [] v = "unified" ->
           IF meth = "list_media" THEN ReadOnly(m, e, "listed")
           ELSE IF meth = "add_movie_to_watchlist"
                THEN DbAddHandler([p EXCEPT !.watched = "false"], m, e, t)
           ELSE IF meth = "get_smart_recommendations" THEN ReadOnly(m, e, "recommended")
           ELSE IF meth = "update_movie" THEN DbUpdateHandler(p, m, e, t)
           ELSE IF meth = "mark_as_watched"
                THEN DbUpdateHandler([p EXCEPT !.watched = "true"], m, e, t)
           ELSE NoAccess(m, e, "unknown")
      [] v = "readonly" ->
           IF meth = "list_movies" THEN ReadOnly(m, e, "listed")
           ELSE IF meth = "get_recommendations" THEN ReadOnly(m, e, "recommended")
           ELSE NoAccess(m, e, "unknown")
      [] v = "proxy" ->
           \* the message is written to the child's stdin, whose handler runs
           ReadOnly(m, e, "forwarded")

\* arguments a caller may send with a tool call over HTTP; a handler reads
\* only some of them, so the bags are enumerated per kind of method
NoParams ==
    [id |-> Null, title |-> NullS, year |-> Null, watched |-> "undefined",
     rating |-> Null, notes |-> NullS]

AddParams ==
    {[NoParams EXCEPT !.title = "Dune", !.watched = w, !.rating = r] :
        w \in Tri, r \in {Null, 7}} \cup {NoParams}

UpdateParams ==
    {[NoParams EXCEPT !.id = i, !.watched = w, !.rating = r] :
        i \in {0, 3, Now0}, w \in Tri, r \in {Null, 7}}

CallParams(meth) ==
    IF meth \in {"add_movie", "add_movie_to_watchlist"} THEN AddParams
    ELSE IF meth \in {"update_movie", "mark_as_watched"} THEN UpdateParams
    ELSE {NoParams}

HttpMethods ==
    {"list_movies", "list_media", "add_movie", "add_movie_to_watchlist",
     "update_movie", "mark_as_watched", "get_recommendations", "tools/bogus"}

Idle == [pc |-> "idle"]
NoReply == [kind |-> "none"]
NoExchange ==
    [header |-> <<>>, method |-> "none", id |-> Null, status |-> 0,
     touched |-> FALSE, result |-> "none"]

\* the store each variant starts from: the sample list, the row inserted by
\* the start-up connection test, or an empty database
InitialMedia(v) ==
    CASE v \in {"simple", "mock", "readonly"} -> SAMPLE_MOVIES
      [] v = "db" -> <<TestMovie>>
      [] OTHER -> <<>>

InitHttp ==
    /\ variant \in HttpVariants
    /\ media = InitialMedia(variant)
    /\ ext = {}
    /\ now = Now0
    /\ last = NoExchange
    /\ req = [r \in Reqs |-> Idle]
    /\ resp = [r \in Reqs |-> NoReply]

\* the clock advances
Tick ==
    /\ now < Now0 + MaxTicks
    /\ now' = now + 1
    /\ UNCHANGED <<variant, media, ext, last, req, resp>>

\* fetch() on POST /mcp: a request failing the bearer gate is answered at once
HttpReject(h) ==
    /\ AuthStatus(variant, h) # 200
    /\ last' = [header |-> h, method |-> "none", id |-> Null,
                status |-> AuthStatus(variant, h), touched |-> FALSE,
                result |-> "rejected"]
    /\ UNCHANGED <<variant, media, ext, now, req, resp>>

\* fetch() on POST /mcp: an authenticated request is dispatched on body.method
HttpCall(h, meth, p) ==
    /\ AuthStatus(variant, h) = 200
    /\ LET out == Dispatch(variant, meth, p, media, ext, now)
       IN  /\ Len(out.media) <= Len(InitialMedia(variant)) + MaxAdds
           /\ media' = out.media
           /\ ext' = out.ext
           /\ last' = [header |-> h, method |-> meth, id |-> p.id, status |-> 200,
                       touched |-> out.touched, result |-> out.result]
    /\ UNCHANGED <<variant, now, req, resp>>

NextHttp ==
    \/ Tick
    \/ \E h \in Headers : HttpReject(h)
    \/ \E h \in Headers, meth \in HttpMethods :
          \E p \in CallParams(meth) : HttpCall(h, meth, p)

SpecHttp == InitHttp /\ [][NextHttp]_vars

----------------------------------------------------------------------------
\* The stdio media server: CallTool handlers over MediaDatabase, one call at
\* a time (each handler runs to completion before the next call arrives)

Kinds == {"movie", "book"}

\* what the metadata services return: the empty bundle, or attributes.  The
\* movie bundle built by parseMovieData carries no year.
Metadata(kind) ==
    {[director |-> NullS, genres |-> NullS, year |-> Null]} \cup
    {[director |-> "Villeneuve", genres |-> "Sci-Fi", year |-> y] :
        y \in IF kind = "movie" THEN {Null} ELSE {Null, 1965}}

\* arguments of search_and_add_movie / search_and_add_book read by the
\* handlers (`watched` stands for `read` in the book tool)
ToolAddArgs(kind) ==
    {[title |-> "Dune", year |-> y, watched |-> w, rating |-> Null] :
        y \in IF kind = "movie" THEN {Null, 1999} ELSE {Null},
        w \in {"undefined", "false"}}

\* a pre-check that looks the title up under the kind "media", which no
\* stored item has
ExistingMediaWrongKind(m, kind, a) ==
    FindMediaByTitle(m, a.title, "media", IF kind = "movie" THEN a.year ELSE Null)

\* the pre-check of search_and_add_*: findMediaByTitle(title, kind, year),
\* the book tool passing no year
ExistingMedia(m, kind, a) ==
    FindMediaByTitle(m, a.title, kind, IF kind = "movie" THEN a.year ELSE Null)

\* mediaData of search_and_add_*
ToolMediaData(kind, a, meta, t) ==
    [id |-> t, type |-> kind, title |-> a.title,
     year |-> IF kind = "movie" THEN OrElse(a.year, meta.year) ELSE meta.year,
     watched |-> (a.watched # "false"), rating |-> a.rating,
     dateWatched |-> IF a.watched # "false" THEN t ELSE Null,
     notes |-> NullS, genres |-> meta.genres]

\* movieData / bookData of search_and_add_*
ToolSpecificData(meta, t) ==
    {[mediaId |-> t, director |-> meta.director, cast |-> NullS]}

\* updates built by mark_as_watched
MarkUpdates(rating, t) ==
    [NoUpdates EXCEPT !.watched = "true", !.dateWatched = t,
                      !.rating = IF Truthy(rating) THEN rating ELSE Null]

\* updates built by update_movie
ToolUpdates(p) ==
    [NoUpdates EXCEPT !.rating = p.rating, !.watched = p.watched, !.notes = p.notes]

\* a database file left by earlier runs: one unwatched movie
SeedMedia ==
    << [id |-> 3, type |-> "movie", title |-> "Dune", year |-> 1999,
        watched |-> FALSE, rating |-> Null, dateWatched |-> Null,
        notes |-> NullS, genres |-> NullS] >>

NoCall ==
    [method |-> "none", at |-> Null, type |-> NullS, title |-> NullS, year |-> Null,
     id |-> Null, rating |-> Null, result |-> "none", enriched |-> FALSE]

Init ==
    /\ variant = "stdio"
    /\ media \in {<< >>, SeedMedia}
    /\ ext = {}
    /\ now = Now0
    /\ last = NoCall
    /\ req = [r \in Reqs |-> Idle]
    /\ resp = [r \in Reqs |-> NoReply]

\* case "search_and_add_movie" / "search_and_add_book"
SearchAndAdd(kind, a, meta) ==
    /\ Len(media) < MaxItems
    /\ LET call == [NoCall EXCEPT !.method = "search_and_add", !.at = now,
                                  !.type = kind, !.title = a.title, !.year = a.year]
       IN  IF ExistingMedia(media, kind, a) # {}
           THEN /\ last' = [call EXCEPT !.result = "exists"]
                /\ UNCHANGED <<media, ext>>
           ELSE LET r == AddMedia(media, ext, ToolMediaData(kind, a, meta, now),
                                  ToolSpecificData(meta, now))
                IN  /\ media' = r.media
                    /\ ext' = r.ext
                    /\ last' = [call EXCEPT !.enriched = TRUE, !.id = now,
                                  !.result = IF r.ok THEN "added" ELSE "error"]
    /\ UNCHANGED <<variant, now, req, resp>>

\* case "add_movie_to_watchlist": the handler refers to movieDb, which this
\* server never declares; the ReferenceError is caught and reported as text
AddToWatchlist ==
    /\ last' = [NoCall EXCEPT !.method = "add_movie_to_watchlist", !.at = now,
                              !.result = "error"]
    /\ UNCHANGED <<variant, media, ext, now, req, resp>>

\* updateMedia run to completion from a handler
ToolUpdate(method, id, rating, u) ==
    LET found == GetMediaById(media, id)
        call == [NoCall EXCEPT !.method = method, !.at = now, !.id = id,
                               !.rating = rating]
    IN  /\ IF found = {}
           THEN /\ last' = [call EXCEPT !.result = "notfound"]
                /\ UNCHANGED media
           ELSE LET r == UpdateMediaWrite(media, id, u, CHOOSE x \in found : TRUE, now)
                IN  /\ media' = r.media
                    /\ last' = [call EXCEPT !.result = IF r.ok THEN "updated" ELSE "error"]
        /\ UNCHANGED <<variant, ext, now, req, resp>>

\* case "mark_as_watched"
MarkAsWatched(id, rating) ==
    ToolUpdate("mark_as_watched", id, rating, MarkUpdates(rating, now))

\* case "update_movie"
UpdateMovie(p) ==
    ToolUpdate("update_movie", p.id, p.rating, ToolUpdates(p))

\* case "list_media": getMedia and formatting, no write
ListMedia ==
    /\ last' = [NoCall EXCEPT !.method = "list_media", !.at = now, !.result = "listed"]
    /\ UNCHANGED <<variant, media, ext, now, req, resp>>

ToolIds == {0, 3, Now0}

ToolUpdateParams ==
    {[NoParams EXCEPT !.id = i, !.watched = w, !.rating = r] :
        i \in ToolIds, w \in Tri, r \in {Null, 7}} \cup
    {[NoParams EXCEPT !.id = 3, !.notes = "slow"]}

Next ==
    \/ Tick
    \/ \E kind \in Kinds : \E a \in ToolAddArgs(kind), meta \in Metadata(kind) :
          SearchAndAdd(kind, a, meta)
    \/ AddToWatchlist
    \/ \E id \in ToolIds, rating \in {Null, 7, 9} : MarkAsWatched(id, rating)
    \/ \E p \in ToolUpdateParams : UpdateMovie(p)
    \/ ListMedia

Spec == Init /\ [][Next]_vars

----------------------------------------------------------------------------
\* The stdio media server with calls in flight together: a search_and_add
\* handler gives way at its awaits, after the pre-check query and while the
\* enrichment service is asked

InitRace ==
    /\ variant = "stdio"
    /\ media = << >>
    /\ ext = {}
    /\ now = Now0
    /\ last = NoCall
    /\ req = [r \in Reqs |-> Idle]
    /\ resp = [r \in Reqs |-> NoReply]

\* the calls raced: those that leave `watched` to its default
RaceAddArgs(kind) == {a \in ToolAddArgs(kind) : a.watched = "undefined"}

\* the number of search_and_add calls past their pre-check
Enriching == Cardinality({r \in Reqs : req[r].pc = "add_enrich"})

\* search_and_add_* up to `await enrichMovieData`: the pre-check has run
AddPrecheck(r, kind, a) ==
    /\ req[r].pc = "idle"
    /\ Len(media) + Enriching < MaxRaceItems
    /\ IF ExistingMedia(media, kind, a) # {}
       THEN /\ resp' = [resp EXCEPT ![r] =
                          [kind |-> "exists", type |-> kind, title |-> a.title,
                           year |-> a.year, id |-> Null, enriched |-> FALSE]]
            /\ UNCHANGED req
       ELSE /\ req' = [req EXCEPT ![r] = [pc |-> "add_enrich", type |-> kind, a |-> a]]
            /\ UNCHANGED resp
    /\ UNCHANGED <<variant, media, ext, now, last>>

\* search_and_add_* from the enrichment result to the reply: the id is the
\* clock, addMedia inserts, a thrown constraint error becomes an error text
AddInsert(r, meta) ==
    /\ req[r].pc = "add_enrich"
    /\ LET kind == req[r].type
           a == req[r].a
           out == AddMedia(media, ext, ToolMediaData(kind, a, meta, now),
                           ToolSpecificData(meta, now))
       IN  /\ media' = out.media
           /\ ext' = out.ext
           /\ resp' = [resp EXCEPT ![r] =
                         [kind |-> IF out.ok THEN "added" ELSE "error",
                          type |-> kind, title |-> a.title, year |-> a.year,
                          id |-> now, enriched |-> TRUE]]
    /\ req' = [req EXCEPT ![r] = Idle]
    /\ UNCHANGED <<variant, now, last>>

NextRace ==
    \/ Tick
    \/ \E r \in Reqs, kind \in Kinds : \E a \in RaceAddArgs(kind) : AddPrecheck(r, kind, a)
    \/ \E r \in Reqs, kind \in Kinds : \E meta \in Metadata(kind) : AddInsert(r, meta)

SpecRace == InitRace /\ [][NextRace]_vars

----------------------------------------------------------------------------
\* The persistence interface in its three variants, called directly:
\* MediaDatabase over SQLite, the MySQL adapter, and the in-memory MovieStore.
\* A call gives way wherever the code awaits a statement; `last` is the
\* outcome of the call that returned or threw most recently.

PersistVariants == {"sqlite", "mysql", "memory"}

\* JavaScript null, as opposed to undefined (Null, NullS): mysql2 binds null
\* as SQL NULL and throws a TypeError on an undefined bind parameter
JsNull == -2
JsNullS == "jsnull"

\* the column value a bound number or string leaves
BoundN(v) == IF v = JsNull THEN Null ELSE v
BoundS(v) == IF v = JsNullS THEN NullS ELSE v

\* execute() accepts the parameter list, given as its numbers and its strings
\* and booleans: no element is undefined
BindsDefined(nums, strs) ==
    /\ Null \notin nums
    /\ NullS \notin strs
    /\ "undefined" \notin strs

\* `movie_${Date.now()}_${random}` as a number
MySqlId(t, rnd) == 100 * t + rnd

SeedExt == {[mediaId |-> 3, director |-> "Scott", cast |-> NullS]}

NoExt == [mediaId |-> Null, director |-> NullS, cast |-> NullS]

\* the outcome of a persistence call: what it did, to which id, with which
\* extension row or update bag
Reply(kind, id, x, u) == [kind |-> kind, id |-> id, x |-> x, u |-> u]

InitPersist ==
    /\ variant \in PersistVariants
    /\ media = CASE variant = "sqlite" -> SeedMedia
                 [] variant = "memory" -> SAMPLE_MOVIES
                 [] OTHER -> << >>
    /\ ext = IF variant = "sqlite" THEN SeedExt ELSE {}
    /\ now = Now0
    /\ last = Reply("none", Null, NoExt, NoUpdates)
    /\ req = [r \in Reqs |-> Idle]
    /\ resp = [r \in Reqs |-> NoReply]

\* the variant's store may take one more item
RoomToAdd ==
    Len(media) + Cardinality({r \in Reqs : req[r].pc = "mysql_add_ext"})
        < Len(InitialMedia(IF variant = "memory" THEN "simple" ELSE "unified"))
            + (IF variant = "sqlite" THEN 1 ELSE 0) + MaxAdds

\* rows and extension rows handed to MediaDatabase.addMedia: a rating inside
\* or outside the CHECK range, an extension row for the new id or for id 3
AddMediaRows(t) ==
    {[id |-> t, type |-> "movie", title |-> "Dune", year |-> Null, watched |-> FALSE,
      rating |-> r, dateWatched |-> Null, notes |-> NullS, genres |-> NullS] :
        r \in {Null, 11}}

AddMediaSpecific(t) ==
    {[mediaId |-> i, director |-> "Villeneuve", cast |-> NullS] : i \in {t, 3}}

\* MediaDatabase.addMedia
SqliteAddMedia(row, x) ==
    /\ variant = "sqlite"
    /\ RoomToAdd
    /\ LET out == AddMedia(media, ext, row, {x})
       IN  /\ media' = out.media
           /\ ext' = out.ext
           /\ last' = Reply(IF out.ok THEN "added" ELSE "add_error", row.id, x, NoUpdates)
    /\ UNCHANGED <<variant, now, req, resp>>

\* update bags handed to MediaDatabase.updateMedia
SqliteUpdates ==
    { [NoUpdates EXCEPT !.watched = "true"],
      [NoUpdates EXCEPT !.rating = 7] }

\* MediaDatabase.updateMedia up to the transaction: getMediaById; of the row
\* read, the transaction consults dateWatched
UpdateMediaRead(r, id, u) ==
    /\ variant = "sqlite"
    /\ req[r].pc = "idle"
    /\ IF GetMediaById(media, id) = {}
       THEN /\ last' = Reply("notfound", id, NoExt, u)
            /\ UNCHANGED req
       ELSE /\ req' = [req EXCEPT ![r] =
                 [pc |-> "upd_write", id |-> id, u |-> u,
                  snapshot |-> [dateWatched |->
                      (CHOOSE x \in GetMediaById(media, id) : TRUE).dateWatched]]]
            /\ UNCHANGED last
    /\ UNCHANGED <<variant, media, ext, now, resp>>

\* MediaDatabase.updateMedia, the transaction
UpdateMediaCommit(r) ==
    /\ variant = "sqlite"
    /\ req[r].pc = "upd_write"
    /\ LET out == UpdateMediaWrite(media, req[r].id, req[r].u, req[r].snapshot, now)
       IN  /\ media' = out.media
           /\ last' = Reply(IF out.ok THEN "updated" ELSE "upd_error",
                            req[r].id, NoExt, req[r].u)
    /\ req' = [req EXCEPT ![r] = Idle]
    /\ UNCHANGED <<variant, ext, now, resp>>

\* movie objects handed to the MySQL adapter's addMovie: every field given
\* (some as null), director and cast left out, year left out
MySqlMovies ==
    LET full == [title |-> "Dune", year |-> 2021, watched |-> "false", rating |-> JsNull,
                 notes |-> JsNullS, genre |-> JsNullS, director |-> "Villeneuve",
                 cast |-> JsNullS]
    IN  { full, [full EXCEPT !.director = NullS, !.cast = NullS],
          [full EXCEPT !.year = Null] }

\* the row INSERT INTO movies is given
MySqlExtRow(id, movie) ==
    [mediaId |-> id, director |-> BoundS(movie.director), cast |-> BoundS(movie.cast)]

\* addMovie: the id, then INSERT INTO media; nothing is inserted when
\* execute() throws on an undefined parameter or on a duplicate key
MySqlAddMedia(r, movie, rnd) ==
    /\ variant = "mysql"
    /\ req[r].pc = "idle"
    /\ RoomToAdd
    /\ LET id == MySqlId(now, rnd)
       IN  IF /\ BindsDefined({id, movie.year, movie.rating},
                              {movie.title, movie.watched, movie.notes, movie.genre})
              /\ id \notin Ids(media)
           THEN /\ media' = Append(media,
                      [id |-> id, type |-> "movie", title |-> BoundS(movie.title),
                       year |-> BoundN(movie.year), watched |-> (movie.watched = "true"),
                       rating |-> BoundN(movie.rating), dateWatched |-> Null,
                       notes |-> BoundS(movie.notes), genres |-> BoundS(movie.genre)])
                /\ req' = [req EXCEPT ![r] = [pc |-> "mysql_add_ext", id |-> id, movie |-> movie]]
                /\ UNCHANGED last
           ELSE /\ last' = Reply("add_error", id, MySqlExtRow(id, movie), NoUpdates)
                /\ UNCHANGED <<media, req>>
    /\ UNCHANGED <<variant, ext, now, resp>>

\* addMovie: INSERT INTO movies, a second statement on the same connection
\* with no transaction around the two
MySqlAddMovie(r) ==
    /\ variant = "mysql"
    /\ req[r].pc = "mysql_add_ext"
    /\ LET id == req[r].id
           movie == req[r].movie
           x == MySqlExtRow(id, movie)
       IN  IF BindsDefined({id}, {movie.director, movie.cast}) /\ InsertExtOk(ext, x)
           THEN /\ ext' = ext \cup {x}
                /\ last' = Reply("added", id, x, NoUpdates)
           ELSE /\ ext' = ext
                /\ last' = Reply("add_error", id, x, NoUpdates)
    /\ req' = [req EXCEPT ![r] = Idle]
    /\ UNCHANGED <<variant, media, now, resp>>

\* update bags handed to the MySQL adapter's updateMovie
MySqlUpdates ==
    LET full == [title |-> "Dune", year |-> 2021, watched |-> "true", rating |-> 8,
                 notes |-> JsNullS, dateWatched |-> Null, director |-> "Nolan",
                 cast |-> JsNullS]
    IN  { full, [full EXCEPT !.director = NullS, !.cast = NullS],
          [NoUpdates EXCEPT !.rating = 8] }

\* UPDATE media SET title, year, watched, rating, notes WHERE id: all five
MySqlSetRow(row, u) ==
    [row EXCEPT !.title = BoundS(u.title), !.year = BoundN(u.year),
                !.watched = (u.watched = "true"), !.rating = BoundN(u.rating),
                !.notes = BoundS(u.notes)]

\* updateMovie: UPDATE media
MySqlUpdateMedia(r, id, u) ==
    /\ variant = "mysql"
    /\ req[r].pc = "idle"
    /\ IF BindsDefined({u.year, u.rating, id}, {u.title, u.watched, u.notes})
       THEN /\ media' = [i \in 1..Len(media) |->
                           IF media[i].id = id THEN MySqlSetRow(media[i], u) ELSE media[i]]
            /\ req' = [req EXCEPT ![r] = [pc |-> "mysql_upd_ext", id |-> id, u |-> u]]
            /\ UNCHANGED last
       ELSE /\ last' = Reply("upd_error", id, NoExt, u)
            /\ UNCHANGED <<media, req>>
    /\ UNCHANGED <<variant, ext, now, resp>>

\* updateMovie: UPDATE movies SET director, cast WHERE media_id
MySqlUpdateMovie(r) ==
    /\ variant = "mysql"
    /\ req[r].pc = "mysql_upd_ext"
    /\ LET id == req[r].id
           u == req[r].u
       IN  IF BindsDefined({id}, {u.director, u.cast})
           THEN /\ ext' = {IF x.mediaId = id
                           THEN [x EXCEPT !.director = BoundS(u.director),
                                          !.cast = BoundS(u.cast)]
                           ELSE x : x \in ext}
                /\ last' = Reply("updated", id, NoExt, u)
           ELSE /\ ext' = ext
                /\ last' = Reply("upd_error", id, NoExt, u)
    /\ req' = [req EXCEPT ![r] = Idle]
    /\ UNCHANGED <<variant, media, now, resp>>

\* MovieStore.addMovie
StoreAdd(p) ==
    /\ variant = "memory"
    /\ RoomToAdd
    /\ media' = StoreAddMovie(media, CreateMovie(p, now))
    /\ last' = Reply("added", now, NoExt, NoUpdates)
    /\ UNCHANGED <<variant, ext, now, req, resp>>

\* update bags handed to MovieStore.updateMovie
StoreUpdates ==
    { [NoUpdates EXCEPT !.rating = 7],
      [NoUpdates EXCEPT !.watched = "true"],
      [NoUpdates EXCEPT !.watched = "false", !.rating = 7],
      [NoUpdates EXCEPT !.rating = 11] }

\* MovieStore.updateMovie
StoreUpdate(id, u) ==
    /\ variant = "memory"
    /\ media' = StoreUpdateMovie(media, id, u)
    /\ last' = Reply(IF IndexOf(media, id) = 0 THEN "notfound" ELSE "updated",
                     id, NoExt, u)
    /\ UNCHANGED <<variant, ext, now, req, resp>>

\* the ids the callers pass to the update operations of each variant
PersistIds(v) ==
    CASE v = "sqlite" -> {0, 3}
      [] v = "mysql" -> {0, MySqlId(Now0, 0)}
      [] OTHER -> {0, 3}

NextPersist ==
    \/ Tick
    \/ \E row \in AddMediaRows(now), x \in AddMediaSpecific(now) : SqliteAddMedia(row, x)
    \/ \E r \in Reqs : \E id \in PersistIds(variant), u \in SqliteUpdates :
          UpdateMediaRead(r, id, u)
    \/ \E r \in Reqs : UpdateMediaCommit(r)
    \/ \E r \in Reqs : \E movie \in MySqlMovies, rnd \in 0..MaxRandom :
          MySqlAddMedia(r, movie, rnd)
    \/ \E r \in Reqs : MySqlAddMovie(r)
    \/ \E r \in Reqs : \E id \in PersistIds(variant), u \in MySqlUpdates :
          MySqlUpdateMedia(r, id, u)
    \/ \E r \in Reqs : MySqlUpdateMovie(r)
    \/ StoreAdd([NoParams EXCEPT !.title = "Dune"])
    \/ \E id \in PersistIds(variant), u \in StoreUpdates : StoreUpdate(id, u)

SpecPersist == InitPersist /\ [][NextPersist]_vars

----------------------------------------------------------------------------
\* Properties of the HTTP variants (SpecHttp)

\* a header that is absent, not of the Bearer scheme, or carrying a token
\* other than the configured key
BadHeader(h) == h = <<>> \/ h[1] # "Bearer" \/ h[2] # API_KEY

\* C1: in every HTTP variant a POST /mcp whose Authorization header is absent,
\* does not start with "Bearer " or carries a wrong token is answered with an
\* authentication failure without running a handler: the exchange does not
\* touch the store, and the store is the same before and after it.
C1_RejectedBeforeStore ==
    [][ (last' # last /\ BadHeader(last'.header)) =>
          /\ media' = media
          /\ ext' = ext
          /\ ~last'.touched
          /\ last'.status \in {401, 403} ]_vars

\* C1 witness: a wrong-token request was rejected by a server whose store
\* had already been written by an earlier authenticated call
C1_Witness ==
    /\ last.header = <<"Bearer", "wrong">>
    /\ last.result = "rejected"
    /\ Len(media) > Len(InitialMedia(variant))

\* C2: a missing or non-Bearer header yields 401 and a Bearer header with the
\* wrong token yields 403, in every HTTP variant.
C2_StatusByFailure ==
    last.result = "rejected" =>
        last.status = IF last.header = <<>> \/ last.header[1] # "Bearer"
                      THEN 401 ELSE 403

\* C5: after mark_as_watched on an existing item that item is watched,
\* whatever other arguments were sent.
C5_MarkSetsWatched ==
    (last.method = "mark_as_watched" /\ last.result = "updated") =>
        media[IndexOf(media, last.id)].watched

\* C6: add_movie_to_watchlist stores the new item unwatched and without a
\* consumption date, whatever arguments were sent.
C6_WatchlistUnwatched ==
    (last.method = "add_movie_to_watchlist" /\ last.result = "added") =>
        /\ ~media[Len(media)].watched
        /\ media[Len(media)].dateWatched = Null

----------------------------------------------------------------------------
\* Properties of the stdio media server (Spec)

\* the stored items a search_and_add call for (kind, title, year) duplicates
SameTitleKindYear(m, kind, title, year) ==
    {i \in 1..Len(m) : /\ m[i].title = title
                       /\ m[i].type = kind
                       /\ (Truthy(year) /\ kind = "movie" => m[i].year = year)}

\* C4: mark_as_watched on an item with no consumption date sets one, and a
\* later mark_as_watched on the same item with a different rating updates the
\* rating but leaves the consumption date already set unchanged.
C4_SecondMarkKeepsDate ==
    [][ (last' # last /\ last'.method = "mark_as_watched" /\ last'.result = "updated") =>
          LET i == IndexOf(media, last'.id)
          IN  /\ media'[i].dateWatched # Null
              /\ (Truthy(last'.rating) /\ last'.rating # media[i].rating =>
                    /\ media'[i].rating = last'.rating
                    /\ (media[i].dateWatched # Null =>
                          media'[i].dateWatched = media[i].dateWatched)) ]_vars

\* C8: a search_and_add call whose title (and kind, and year when given)
\* matches a stored item answers "already exists" without calling the
\* enrichment service and leaves the store unchanged; a call that adds starts
\* with no match and ends with one more item that the same call now matches,
\* so identical calls made one after another store exactly one item.
C8_ExistingTitleNotAddedAgain ==
    [][ (last' # last /\ last'.method = "search_and_add") =>
          LET before == SameTitleKindYear(media, last'.type, last'.title, last'.year)
              after == SameTitleKindYear(media', last'.type, last'.title, last'.year)
          IN  /\ before # {} =>
                    /\ last'.result = "exists"
                    /\ ~last'.enriched
                    /\ media' = media
                    /\ ext' = ext
              /\ last'.result = "added" =>
                    /\ before = {}
                    /\ Cardinality(after) = 1
                    /\ Len(media') = Len(media) + 1 ]_vars

\* C8 witness: a book was added by this server and the last call, for the
\* same book, was answered "already exists" with one such book stored
C8_Witness ==
    /\ last.method = "search_and_add"
    /\ last.result = "exists"
    /\ last.type = "book"
    /\ Cardinality(SameTitleKindYear(media, "book", last.title, last.year)) = 1

\* C10: no tool operation removes a stored item or changes its kind: every
\* (id, kind) pair of the store is still in the store after any step.
C10_ItemsAndKindsPersist ==
    [][ \A i \in 1..Len(media) :
          \E j \in 1..Len(media') : /\ media'[j].id = media[i].id
                                    /\ media'[j].type = media[i].type ]_vars

\* C10 witness: a stored book has just been updated by a tool call and is
\* stored next to another item
C10_Witness ==
    /\ last.method \in {"mark_as_watched", "update_movie"}
    /\ last.result = "updated"
    /\ Len(media) >= 2
    /\ \E i \in 1..Len(media) : media[i].id = last.id /\ media[i].type = "book"

----------------------------------------------------------------------------
\* Properties of search_and_add calls in flight together (SpecRace)

\* two stored items with the same title, kind and year
DuplicateItems(m) ==
    \E i, j \in 1..Len(m) : /\ i < j
                            /\ m[i].title = m[j].title
                            /\ m[i].type = m[j].type
                            /\ m[i].year = m[j].year

\* C9: the duplicate check is not atomic with the insert: a search_and_add
\* call that passed its pre-check inserts its item whenever the id is free,
\* whatever has been stored since under the same title, kind and year, so two
\* calls in flight together can leave two such items.
C9_InsertIgnoresDuplicates ==
    [][ \A r \in Reqs :
          (req[r].pc = "add_enrich" /\ req'[r].pc = "idle") =>
             IF now \in Ids(media)
             THEN resp'[r].kind = "error" /\ media' = media
             ELSE /\ resp'[r].kind = "added"
                  /\ Len(media') = Len(media) + 1
                  /\ media'[Len(media')].title = req[r].a.title
                  /\ media'[Len(media')].type = req[r].type ]_vars

\* C9 witness: two calls were both answered "added" for the same title, kind
\* and year, and the store holds two items with that title, kind and year
C9_Witness ==
    /\ DuplicateItems(media)
    /\ \E r1, r2 \in Reqs :
          /\ r1 # r2
          /\ resp[r1].kind = "added"
          /\ resp[r2].kind = "added"
          /\ resp[r1].title = resp[r2].title
          /\ resp[r1].type = resp[r2].type
          /\ resp[r1].year = resp[r2].year

----------------------------------------------------------------------------
\* Properties of the persistence variants (SpecPersist)

\* C3: the base-record insert and the extension-record insert of one add are
\* one atomic transaction in every variant that keeps extension records:
\* once every add has returned or thrown, the ids of the base rows are the
\* ids of the extension rows.
C3_AddIsAtomic ==
    (variant \in {"sqlite", "mysql"} /\ \A r \in Reqs : req[r].pc # "mysql_add_ext") =>
        Ids(media) = {x.mediaId : x \in ext}

RowFields ==
    {"id", "type", "title", "year", "watched", "rating", "notes", "dateWatched", "genres"}

\* the update bag carries the field
Present(u, f) ==
    CASE f = "title" -> u.title # NullS
      [] f = "year" -> u.year # Null
      [] f = "watched" -> u.watched # "undefined"
      [] f = "rating" -> u.rating # Null
      [] f = "notes" -> u.notes # NullS
      [] f = "dateWatched" -> u.dateWatched # Null
      [] OTHER -> FALSE

\* this step is the write of an update call to item `id` whose bag carries
\* field f or, with `stamp`, whose bag sets watched to true for an item read
\* without a consumption date, f being the consumption date
FieldWritten(id, f, stamp) ==
    \/ \E r \in Reqs :
          /\ req[r].pc = "upd_write"
          /\ req'[r].pc = "idle"
          /\ req[r].id = id
          /\ \/ Present(req[r].u, f)
             \/ /\ stamp
                /\ f = "dateWatched"
                /\ req[r].u.watched = "true"
                /\ req[r].snapshot.dateWatched = Null
    \/ \E r \in Reqs :
          /\ req[r].pc = "idle"
          /\ req'[r].pc = "mysql_upd_ext"
          /\ req'[r].id = id
          /\ Present(req'[r].u, f)
    \/ /\ variant = "memory"
       /\ last' # last
       /\ last'.kind = "updated"
       /\ last'.id = id
       /\ Present(last'.u, f)

\* every stored field that a step changes is written by an update call to
\* that item, and every extension row that a step changes belongs to an item
\* whose update call carries director and cast
UpdateFrame(stamp) ==
    /\ \A i \in 1..Len(media) :
          /\ i <= Len(media')
          /\ \A f \in RowFields :
                media'[i][f] # media[i][f] => FieldWritten(media[i].id, f, stamp)
    /\ \A x \in ext :
          x \in ext' \/ \E r \in Reqs : /\ req[r].pc = "mysql_upd_ext"
                                        /\ req[r].id = x.mediaId
                                        /\ req[r].u.director # NullS
                                        /\ req[r].u.cast # NullS

\* C7 as stated: an update changes only the fields present in the call; every
\* field the call omits, and every field of every other item, keeps its value,
\* in every persistence variant.
C7_UpdateChangesOnlyGivenFields == [][UpdateFrame(FALSE)]_vars

\* C7 amended: an update changes only the fields present in the call, except
\* that the consumption date is also stamped when the call sets watched to
\* true and the item had no consumption date when the update read it; every
\* other omitted field, and every field of every other item, keeps its value,
\* in every persistence variant.
C7_UpdateFrameWithStamp == [][UpdateFrame(TRUE)]_vars

\* C7 witness: an update carrying only watched=true has just been written to
\* an item that now has a consumption date and keeps the rating it was given
\* by an earlier update
C7_Witness ==
    /\ variant = "sqlite"
    /\ last.kind = "updated"
    /\ last.u = [NoUpdates EXCEPT !.watched = "true"]
    /\ \E i \in 1..Len(media) : /\ media[i].id = last.id
                                /\ media[i].dateWatched # Null
                                /\ media[i].rating = 7

-----------------------------------------------------------------------------
\* Queries: listing, preference analysis and recommendations over a store

MaxQueryItems == 3

\* the genres TEXT column: absent, a JSON array of names (what
\* MovieService.parseMovieData writes), or plain text whose names are
\* joined by ", " (what the adapters copy from a movie's genre field)
NoGenres == [fmt |-> "none", tokens |-> << >>]
JsonGenres(t) == [fmt |-> "json", tokens |-> t]
PlainGenres(t) == [fmt |-> "plain", tokens |-> t]

\* JSON.parse(item.genres) returns an array
JsonParses(g) == g.fmt = "json"

\* item.genres.includes(',')
HasComma(g) == g.fmt = "plain" /\ Len(g.tokens) > 1

\* SQL: genres LIKE '%name%', for a name that is one whole genre name
GenresLike(g, name) == \E k \in 1..Len(g.tokens) : g.tokens[k] = name

\* a media row joined with its extension row (MediaWithMovie / MediaWithBook);
\* likedAspects holds the names of the comma-separated text
QRow(id, type, title, year, watched, rating, date, genres, creator, liked) ==
    [id |-> id, type |-> type, title |-> title, year |-> year,
     watched |-> watched, rating |-> rating, dateWatched |-> date,
     genres |-> genres, creator |-> creator, likedAspects |-> liked]

QueryRows ==
    << QRow(1, "movie", "The Matrix", 1999, TRUE, 9, 7, PlainGenres(<<"Sci-Fi">>), "Wachowskis", <<"visuals">>),
       QRow(2, "movie", "Inception", 2010, TRUE, 8, 6, PlainGenres(<<"Sci-Fi">>), "Nolan", <<"visuals", "plot">>),
       QRow(3, "movie", "Heat", 1995, TRUE, 6, 5, PlainGenres(<<"Drama">>), "Mann", << >>),
       QRow(4, "movie", "Dune", 2021, FALSE, 10, Null, JsonGenres(<<"Sci-Fi", "Drama">>), "Villeneuve", <<"plot">>),
       QRow(5, "movie", "Arrival", 2016, TRUE, Null, 4, JsonGenres(<<"Sci-Fi", "Drama">>), "Villeneuve", <<"plot">>),
       QRow(6, "movie", "Amour", 2012, TRUE, 10, 3, JsonGenres(<<"Drama", "Drama">>), "Haneke", << >>),
       QRow(7, "movie", "Se7en", 1995, TRUE, 7, Null, PlainGenres(<<"Crime", "Drama">>), "Fincher", <<"plot">>),
       QRow(8, "book", "Dune", 1965, TRUE, 8, 2, JsonGenres(<<"Sci-Fi">>), "Herbert", << >>) >>

\* the rows of QueryRows whose position is in S, in the order of QueryRows
RECURSIVE Pick(_, _)
Pick(S, k) ==
    IF k > Len(QueryRows) THEN << >>
    ELSE (IF k \in S THEN <<QueryRows[k]>> ELSE << >>) \o Pick(S, k + 1)

\* Movie objects of MovieStore carry neither genres nor a creator
RECURSIVE AsMovies(_)
AsMovies(m) ==
    IF m = << >> THEN << >>
    ELSE <<[Head(m) EXCEPT !.genres = NoGenres, !.creator = NullS,
                           !.dateWatched = Null, !.likedAspects = << >>]>>
         \o AsMovies(Tail(m))

\* SQLiteMovieDatabase.initialize: the sample movies of the read-only server
ReadOnlyMovies ==
    << QRow(1, "movie", "The Matrix", 1999, TRUE, 9, Null, PlainGenres(<<"Sci-Fi">>), "Wachowskis", << >>),
       QRow(2, "movie", "Inception", 2010, TRUE, 8, Null, PlainGenres(<<"Sci-Fi">>), "Nolan", << >>),
       QRow(3, "movie", "The Dark Knight", 2008, TRUE, 9, Null, PlainGenres(<<"Action">>), "Nolan", << >>),
       QRow(4, "movie", "Interstellar", 2014, FALSE, 8, Null, PlainGenres(<<"Sci-Fi">>), "Nolan", << >>),
       QRow(5, "movie", "Blade Runner 2049", 2017, FALSE, 8, Null, PlainGenres(<<"Sci-Fi">>), "Villeneuve", << >>),
       QRow(6, "movie", "Ex Machina", 2014, FALSE, 7, Null, PlainGenres(<<"Sci-Fi">>), "Garland", << >>) >>

\* stdio: MediaDatabase behind the media server; movies: MovieDatabase behind
\* the movie servers; memory: MovieStore; readonly: SQLiteMovieDatabase
QueryVariants == {"stdio", "movies", "memory", "readonly"}

QueryStores(v) ==
    IF v = "readonly" THEN {ReadOnlyMovies}
    ELSE LET picked == {Pick(S, 1) : S \in {T \in SUBSET (1..Len(QueryRows)) :
                                              Cardinality(T) <= MaxQueryItems}}
             movies == {m \in picked : \A k \in 1..Len(m) : m[k].type = "movie"}
         IN  CASE v = "memory" -> {AsMovies(m) : m \in movies}
               [] v = "movies" -> movies
               [] OTHER -> picked

\* Array.prototype.sort with the comparator (a, b) => b.key - a.key, the key
\* being the fraction num / den: a stable sort, larger keys first
KeyGreater(a, b) == a.num * b.den > b.num * a.den

RECURSIVE InsertDesc(_, _)
InsertDesc(sorted, e) ==
    IF sorted = << >> THEN <<e>>
    ELSE IF KeyGreater(e, Head(sorted)) THEN <<e>> \o sorted
    ELSE <<Head(sorted)>> \o InsertDesc(Tail(sorted), e)

RECURSIVE SortDesc(_)
SortDesc(s) ==
    IF s = << >> THEN << >>
    ELSE InsertDesc(SortDesc(SubSeq(s, 1, Len(s) - 1)), s[Len(s)])

\* Array.prototype.includes
InSeq(x, list) == \E k \in 1..Len(list) : list[k] = x

\* slice(0, n)
Slice(s, n) == SubSeq(s, 1, IF Len(s) < n THEN Len(s) ELSE n)

RECURSIVE MapVal(_)
MapVal(s) == IF s = << >> THEN << >> ELSE <<Head(s).val>> \o MapVal(Tail(s))

\* the filters object of getMedia / getMovies
NoFilters ==
    [type |-> NullS, watchedOnly |-> "undefined", watched |-> "undefined",
     minRating |-> Null, genre |-> NullS, year |-> Null,
     director |-> NullS, author |-> NullS]

\* titles in the order of SQLite's text comparison
TitleOrder ==
    <<"Amour", "Arrival", "Dune", "Heat", "Inception", "Se7en", "The Matrix">>

TitleRank(t) == CHOOSE k \in 1..Len(TitleOrder) : TitleOrder[k] = t

\* orderBy(desc(dateWatched), asc(title)): rows without a date come last
RECURSIVE OrderKeys(_)
OrderKeys(m) ==
    IF m = << >> THEN << >>
    ELSE <<[num |-> 10 * Head(m).dateWatched - TitleRank(Head(m).title),
            den |-> 1, val |-> Head(m)]>> \o OrderKeys(Tail(m))

OrderByDateTitle(m) == MapVal(SortDesc(OrderKeys(m)))

\* MediaDatabase.getMedia: a condition is pushed only for a truthy filter,
\* and there is none for director or author
GetMedia(m, f) ==
    LET keep(r) ==
            /\ f.type # NullS => r.type = f.type
            /\ f.watchedOnly = "true" => r.watched
            /\ Truthy(f.minRating) => (r.rating # Null /\ r.rating >= f.minRating)
            /\ f.genre # NullS => GenresLike(r.genres, f.genre)
            /\ Truthy(f.year) => r.year = f.year
    IN  OrderByDateTitle(SelectSeq(m, keep))

\* MovieDatabase.getMovies: as getMedia, with a condition on director
GetMovies(m, f) ==
    LET keep(r) ==
            /\ f.watchedOnly = "true" => r.watched
            /\ Truthy(f.minRating) => (r.rating # Null /\ r.rating >= f.minRating)
            /\ f.genre # NullS => GenresLike(r.genres, f.genre)
            /\ f.director # NullS => r.creator = f.director
            /\ Truthy(f.year) => r.year = f.year
    IN  OrderByDateTitle(SelectSeq(m, keep))

\* MovieStore.getMovies
StoreGetMovies(m, f) ==
    LET keep(r) ==
            /\ f.watchedOnly = "true" => r.watched
            /\ f.minRating # Null => (r.rating # Null /\ r.rating >= f.minRating)
    IN  SelectSeq(m, keep)

\* SQLiteMovieDatabase.getMovies: reads genre, year and watched only
SimpleGetMovies(m, f) ==
    LET keep(r) ==
            /\ f.genre # NullS => GenresLike(r.genres, f.genre)
            /\ Truthy(f.year) => r.year = f.year
            /\ f.watched # "undefined" => r.watched = (f.watched = "true")
    IN  SelectSeq(m, keep)

\* the arguments of list_media / list_movies
NoListArgs ==
    [type |-> NullS, watched_only |-> "undefined", watchlist_only |-> "undefined",
     min_rating |-> Null, genre |-> NullS, creator |-> NullS, year |-> Null]

ListArgs ==
    {[NoListArgs EXCEPT !.type = t, !.watched_only = w, !.watchlist_only = l,
                        !.min_rating = r, !.genre = g, !.creator = c] :
        t \in {NullS, "movie"}, w \in {"undefined", "true"},
        l \in {"undefined", "true"}, r \in {Null, 8, 10},
        g \in {NullS, "Drama"}, c \in {NullS, "Nolan"}}

RECURSIVE RowIds(_)
RowIds(m) == IF m = << >> THEN << >> ELSE <<Head(m).id>> \o RowIds(Tail(m))

\* the outcome of a query: the operation, its arguments, the ids of the
\* items the reply names in order, the shape of the text and its item lines
NoAnalysis ==
    [favoriteGenres |-> << >>, favoriteCreators |-> << >>,
     averageRating |-> [num |-> 0, den |-> 1], totalWatched |-> 0,
     commonLikedAspects |-> << >>]

NoQuery ==
    [op |-> "none", args |-> NoListArgs, ids |-> << >>, text |-> "none",
     lines |-> 0, analysis |-> NoAnalysis, count |-> Null]

\* the list_media filters built from the arguments
ListMediaFilters(a) ==
    [NoFilters EXCEPT
        !.type = a.type,
        !.watchedOnly = IF a.watched_only = "true" THEN "true"
                        ELSE IF a.watchlist_only = "true" THEN "false"
                        ELSE "undefined",
        !.minRating = IF Truthy(a.min_rating) THEN a.min_rating ELSE Null,
        !.genre = a.genre,
        !.author = IF a.creator # NullS /\ a.type = "book" THEN a.creator ELSE NullS,
        !.director = IF a.creator # NullS /\ a.type = "movie" THEN a.creator ELSE NullS,
        !.year = IF Truthy(a.year) THEN a.year ELSE Null]

\* the list_movies filters of the movie servers: creator is their director
ListMoviesFilters(a) ==
    [ListMediaFilters([a EXCEPT !.type = NullS]) EXCEPT !.director = a.creator]

\* the item lines call JSON.parse on every genres text that is not empty
LinesThrow(rows) ==
    \E k \in 1..Len(rows) : rows[k].genres.fmt = "plain"

\* case "list_media" / "list_movies" of the SQLite servers
ListReply(a, rows) ==
    [NoQuery EXCEPT
        !.op = "list", !.args = a,
        !.ids = IF LinesThrow(rows) THEN << >> ELSE RowIds(rows),
        !.text = IF rows = << >> THEN "none found"
                 ELSE IF LinesThrow(rows) THEN "error" ELSE "lines",
        !.lines = IF rows = << >> \/ LinesThrow(rows) THEN 0 ELSE Len(rows)]

\* mcpHandlers.list_movies over MovieStore: the lines joined, whatever their number
StoreListReply(a, rows) ==
    [NoQuery EXCEPT !.op = "list", !.args = a, !.ids = RowIds(rows),
                    !.text = "lines", !.lines = Len(rows)]

\* mcpHandlers.list_movies of the read-only server: a count line, then the lines
ReadOnlyListReply(a, rows) ==
    [NoQuery EXCEPT !.op = "list", !.args = a, !.ids = RowIds(rows),
                    !.text = "found n", !.lines = Len(rows)]

ListHandler(v, m, a) ==
    CASE v = "stdio" -> ListReply(a, GetMedia(m, ListMediaFilters(a)))
      [] v = "movies" -> ListReply(a, GetMovies(m, ListMoviesFilters(a)))
      [] v = "memory" ->
            StoreListReply(a, StoreGetMovies(m,
                [NoFilters EXCEPT !.watchedOnly = a.watched_only,
                                  !.minRating = a.min_rating]))
      [] OTHER ->
            ReadOnlyListReply(a, SimpleGetMovies(m,
                [NoFilters EXCEPT !.watchedOnly = a.watched_only,
                                  !.minRating = a.min_rating,
                                  !.genre = a.genre, !.year = a.year]))

\* CountedGenres with plain text counted as well
CountedGenresAnyText(g) == g.tokens

\* the genre names getPreferenceAnalysis counts for one item: the parsed
\* array, or the text split at commas when it is not JSON and holds a comma
CountedGenres(g) ==
    IF JsonParses(g) \/ HasComma(g) THEN g.tokens ELSE << >>

\* genreMap / creatorMap: entries in insertion order, num the totalRating
\* and den the count of the name val
RECURSIVE Bump(_, _, _)
Bump(map, name, rating) ==
    IF map = << >>
    THEN <<[val |-> name, num |-> IF Truthy(rating) THEN rating ELSE 0, den |-> 1]>>
    ELSE IF Head(map).val = name
    THEN <<[Head(map) EXCEPT
               !.num = @ + (IF Truthy(rating) THEN rating ELSE 0),
               !.den = @ + 1]>> \o Tail(map)
    ELSE <<Head(map)>> \o Bump(Tail(map), name, rating)

RECURSIVE BumpAll(_, _, _)
BumpAll(map, names, rating) ==
    IF names = << >> THEN map
    ELSE BumpAll(Bump(map, Head(names), rating), Tail(names), rating)

\* watchedMedia.forEach: the genre map after the items, first to last
RECURSIVE GenreMap(_)
GenreMap(items) ==
    IF items = << >> THEN << >>
    ELSE LET item == items[Len(items)]
         IN  BumpAll(GenreMap(SubSeq(items, 1, Len(items) - 1)),
                     CountedGenres(item.genres), item.rating)

RECURSIVE CreatorMap(_)
CreatorMap(items) ==
    IF items = << >> THEN << >>
    ELSE LET item == items[Len(items)]
             rest == CreatorMap(SubSeq(items, 1, Len(items) - 1))
         IN  IF item.creator # NullS THEN Bump(rest, item.creator, item.rating)
             ELSE rest

\* filter by count, sort by average rating, keep the first five names
Favorites(map, minCount) ==
    LET enough(e) == e.den >= minCount
    IN  MapVal(Slice(SortDesc(SelectSeq(map, enough)), 5))

RECURSIVE RatingSum(_)
RatingSum(items) ==
    IF items = << >> THEN 0
    ELSE (IF Truthy(Head(items).rating) THEN Head(items).rating ELSE 0)
         + RatingSum(Tail(items))

Rated(items) == LET rated(r) == Truthy(r.rating) IN SelectSeq(items, rated)

\* AverageRating with every item counted in the denominator
AverageRatingOverAll(items) ==
    IF Len(items) > 0
    THEN [num |-> RatingSum(items), den |-> Len(items)]
    ELSE [num |-> 0, den |-> 1]

\* averageRating: totalRating / ratedItems, or 0 when nothing is rated
AverageRating(items) ==
    IF Len(Rated(items)) > 0
    THEN [num |-> RatingSum(items), den |-> Len(Rated(items))]
    ELSE [num |-> 0, den |-> 1]

\* aspectCounts / genreCount / directorCount: the names counted in their
\* order of first appearance, num the count
RECURSIVE CountMap(_)
CountMap(names) ==
    IF names = << >> THEN << >>
    ELSE LET rest == CountMap(SubSeq(names, 1, Len(names) - 1))
             name == names[Len(names)]
         IN  IF name = NullS THEN rest
             ELSE IF \E k \in 1..Len(rest) : rest[k].val = name
             THEN [k \in 1..Len(rest) |->
                      IF rest[k].val = name THEN [rest[k] EXCEPT !.num = @ + 1]
                      ELSE rest[k]]
             ELSE Append(rest, [val |-> name, num |-> 1, den |-> 1])

\* aspectCounts over the likedAspects of all items: the names counted twice
\* or more, most frequent first, ten at most
CommonLikedAspects(items) ==
    LET RECURSIVE liked(_)
        liked(rows) == IF rows = << >> THEN << >>
                       ELSE Head(rows).likedAspects \o liked(Tail(rows))
        twice(e) == e.num >= 2
    IN  MapVal(Slice(SortDesc(SelectSeq(CountMap(liked(items)), twice)), 10))

\* getPreferenceAnalysis over the watched items it has fetched
PreferenceAnalysis(watchedMedia) ==
    IF watchedMedia = << >> THEN NoAnalysis
    ELSE [favoriteGenres |-> Favorites(GenreMap(watchedMedia), 2),
          favoriteCreators |-> Favorites(CreatorMap(watchedMedia), 1),
          averageRating |-> AverageRating(watchedMedia),
          totalWatched |-> Len(watchedMedia),
          commonLikedAspects |-> CommonLikedAspects(watchedMedia)]

\* MediaDatabase.getPreferenceAnalysis(type) / MovieDatabase.getPreferenceAnalysis()
GetPreferenceAnalysis(v, m, type) ==
    IF v = "stdio"
    THEN PreferenceAnalysis(GetMedia(m,
             [NoFilters EXCEPT !.type = type, !.watchedOnly = "true"]))
    ELSE PreferenceAnalysis(GetMovies(m, [NoFilters EXCEPT !.watchedOnly = "true"]))

\* a movie's genre text, the key of genreCount
GenreText(r) == IF r.genres.tokens = << >> THEN NullS ELSE r.genres.tokens[1]

RECURSIVE GenreTexts(_)
GenreTexts(m) == IF m = << >> THEN << >> ELSE <<GenreText(Head(m))>> \o GenreTexts(Tail(m))

RECURSIVE Creators(_)
Creators(m) == IF m = << >> THEN << >> ELSE <<Head(m).creator>> \o Creators(Tail(m))

\* SQLiteMovieDatabase.analyzePreferences: names ranked by count, the first three
AnalyzePreferences(m) ==
    LET isWatched(r) == r.watched
        watched == SelectSeq(m, isWatched)
    IN  [favoriteGenres |-> MapVal(Slice(SortDesc(CountMap(GenreTexts(watched))), 3)),
         favoriteCreators |-> MapVal(Slice(SortDesc(CountMap(Creators(watched))), 3)),
         averageRating |-> AverageRating(watched),
         totalWatched |-> Len(watched),
         commonLikedAspects |-> << >>]

InitQuery ==
    /\ variant \in QueryVariants
    /\ media \in QueryStores(variant)
    /\ ext = {}
    /\ now = Now0
    /\ last = NoQuery
    /\ req = [r \in Reqs |-> Idle]
    /\ resp = [r \in Reqs |-> NoReply]

\* tools/call list_media or list_movies
CallList(a) ==
    /\ last' = ListHandler(variant, media, a)
    /\ UNCHANGED <<variant, media, ext, now, req, resp>>

\* getPreferenceAnalysis / analyzePreferences called on the store
CallAnalyze(type) ==
    /\ variant # "memory"
    /\ variant # "stdio" => type = NullS
    /\ last' = [NoQuery EXCEPT
                   !.op = "analyze",
                   !.args = [NoListArgs EXCEPT !.type = type],
                   !.analysis = IF variant = "readonly" THEN AnalyzePreferences(media)
                                ELSE GetPreferenceAnalysis(variant, media, type)]
    /\ UNCHANGED <<variant, media, ext, now, req, resp>>

\* case "get_smart_recommendations": the media server's file never declares
\* movieDb, so its handler throws and answers the error text; the movie
\* servers test the number of watched movies
SmartRecommendations(v, m) ==
    IF v = "stdio" THEN "error"
    ELSE IF GetMovies(m, [NoFilters EXCEPT !.watchedOnly = "true"]) = << >>
    THEN "fixed"
    ELSE "template"

CallSmartRecommendations ==
    /\ variant \in {"stdio", "movies"}
    /\ last' = [NoQuery EXCEPT
                   !.op = "smart",
                   !.text = SmartRecommendations(variant, media),
                   !.analysis = IF variant = "stdio" THEN NoAnalysis
                                ELSE GetPreferenceAnalysis(variant, media, NullS)]
    /\ UNCHANGED <<variant, media, ext, now, req, resp>>

\* SQLiteMovieDatabase.getRecommendations: the score of an unwatched movie
Score(r, p) ==
    (IF GenreText(r) # NullS /\ InSeq(GenreText(r), p.favoriteGenres) THEN 3 ELSE 0)
    + (IF r.creator # NullS /\ InSeq(r.creator, p.favoriteCreators) THEN 2 ELSE 0)
    + (IF Truthy(r.rating) /\ r.rating * p.averageRating.den >= p.averageRating.num
       THEN 1 ELSE 0)

\* SQLiteMovieDatabase.getRecommendations: it takes no count
GetRecommendations(m) ==
    LET p == AnalyzePreferences(m)
        unwatched(r) == ~r.watched
        high(r) == Truthy(r.rating) /\ r.rating >= 8
        scored(rows) == [k \in 1..Len(rows) |->
                            [num |-> Score(rows[k], p), den |-> 1, val |-> rows[k]]]
        byRating(rows) == [k \in 1..Len(rows) |->
                            [num |-> rows[k].rating, den |-> 1, val |-> rows[k]]]
    IN  IF SelectSeq(m, unwatched) # << >>
        THEN MapVal(Slice(SortDesc(scored(SelectSeq(m, unwatched))), 5))
        ELSE MapVal(Slice(SortDesc(byRating(SelectSeq(m, high))), 3))

RecommendationCounts == {Null, 1, 2, 3}

\* mcpHandlers.get_recommendations of the read-only server
CallRecommendations(count) ==
    /\ variant = "readonly"
    /\ LET recs == GetRecommendations(media)
       IN  last' = [NoQuery EXCEPT
                       !.op = "recommend", !.count = count,
                       !.ids = RowIds(recs),
                       !.text = IF recs = << >> THEN "fixed" ELSE "template",
                       !.lines = Len(recs)]
    /\ UNCHANGED <<variant, media, ext, now, req, resp>>

NextQuery ==
    \/ \E a \in ListArgs : CallList(a)
    \/ \E t \in {NullS, "movie"} : CallAnalyze(t)
    \/ CallSmartRecommendations
    \/ \E c \in RecommendationCounts : CallRecommendations(c)

SpecQuery == InitQuery /\ [][NextQuery]_vars

\* C11: in every reachable store state, in every variant, each item's rating
\* is absent or an integer in 1..10; an add or update carrying a rating
\* outside that range never changes a stored rating.
C11_RatingInRange ==
    \A i \in 1..Len(media) : media[i].rating = Null \/ media[i].rating \in 1..10

\* C12: a list query with watchedOnly = true and minRating = r returns exactly
\* the stored items that are watched and rated r or more, in every
\* persistence variant behind list_movies / list_media.
C12_WatchedMinRatingExact ==
    (/\ last.op = "list"
     /\ last.text # "error"
     /\ last.args.watched_only = "true"
     /\ last.args.min_rating # Null
     /\ last.args.type = NullS /\ last.args.genre = NullS
     /\ last.args.creator = NullS)
    => {last.ids[k] : k \in 1..Len(last.ids)} =
       {media[k].id : k \in {j \in 1..Len(media) :
            /\ media[j].watched
            /\ media[j].rating # Null
            /\ media[j].rating >= last.args.min_rating}}

\* the stored item a returned id names
Returned(k) == media[IndexOf(media, last.ids[k])]

\* C13: list_media / list_movies called with watchlist_only = true and
\* watched_only unset returns only items with watched = false.
C13_WatchlistOnlyUnwatched ==
    (/\ last.op = "list"
     /\ last.args.watchlist_only = "true"
     /\ last.args.watched_only = "undefined")
    => \A k \in 1..Len(last.ids) : ~Returned(k).watched

\* C14: list_media called with a creator argument returns only items whose
\* director or author contains the given text.
C14_CreatorFilter ==
    (/\ last.op = "list"
     /\ variant = "stdio"
     /\ last.args.creator # NullS)
    => \A k \in 1..Len(last.ids) : Returned(k).creator = last.args.creator

\* the stored items that match the arguments of a list call
Matching(a) ==
    {k \in 1..Len(media) :
        /\ a.type # NullS => media[k].type = a.type
        /\ a.watched_only = "true" => media[k].watched
        /\ (a.watched_only # "true" /\ a.watchlist_only = "true") => ~media[k].watched
        /\ a.min_rating # Null =>
               (media[k].rating # Null /\ media[k].rating >= a.min_rating)
        /\ a.genre # NullS => GenresLike(media[k].genres, a.genre)
        /\ a.creator # NullS => media[k].creator = a.creator
        /\ a.year # Null => media[k].year = a.year}

\* C15: a list operation answers the 'no items found' message exactly when
\* no stored item matches the filters, and otherwise one formatted line per
\* matching item, whatever the store holds (plain comma-separated genres
\* included) and in every variant.
C15_NoneFoundOrOneLineEach ==
    last.op = "list" =>
        /\ (last.text = "none found") <=> (Matching(last.args) = {})
        /\ Matching(last.args) # {} =>
               /\ last.text \in {"lines", "found n"}
               /\ last.lines = Cardinality(Matching(last.args))

\* the watched items of the analysed kind that bear the genre name
Bearers(name) ==
    {k \in 1..Len(media) :
        /\ media[k].watched
        /\ last.args.type # NullS => media[k].type = last.args.type
        /\ GenresLike(media[k].genres, name)}

\* C16: getPreferenceAnalysis lists a genre in favoriteGenres only if at
\* least 2 distinct consumed items bear it, and lists at most 5 genres.
C16_FavoriteGenreHasTwoBearers ==
    (last.op = "analyze" /\ variant \in {"stdio", "movies"}) =>
        /\ Len(last.analysis.favoriteGenres) <= 5
        /\ \A k \in 1..Len(last.analysis.favoriteGenres) :
               Cardinality(Bearers(last.analysis.favoriteGenres[k])) >= 2

\* C17: a genre name borne by two or more watched items as a single-token
\* plain genre text is ranked in favoriteGenres; three watched movies with
\* the texts 'Sci-Fi', 'Sci-Fi', 'Drama' rated 9, 8, 6 give
\* favoriteGenres = <<"Sci-Fi">>, totalConsumed = 3, averageRating = 23/3.
C17_PlainGenreRanked ==
    (last.op = "analyze" /\ variant \in {"stdio", "movies"}) =>
        /\ \A name \in {"Sci-Fi", "Drama", "Crime"} :
               Cardinality({k \in Bearers(name) :
                               media[k].genres = PlainGenres(<<name>>)}) >= 2
               => InSeq(name, last.analysis.favoriteGenres)
        /\ RowIds(media) = <<1, 2, 3>> =>
               /\ last.analysis.favoriteGenres = <<"Sci-Fi">>
               /\ last.analysis.totalWatched = 3
               /\ last.analysis.averageRating = [num |-> 23, den |-> 3]

\* the items an analysis is about: watched, of the analysed kind
Consumed ==
    {k \in 1..Len(media) :
        /\ media[k].watched
        /\ last.args.type # NullS => media[k].type = last.args.type}

ConsumedRated == {k \in Consumed : media[k].rating # Null}

RECURSIVE SumOfRatings(_)
SumOfRatings(S) ==
    IF S = {} THEN 0
    ELSE LET k == CHOOSE j \in S : TRUE
         IN  media[k].rating + SumOfRatings(S \ {k})

\* C18: averageRating is the mean of the ratings of exactly the watched and
\* rated items, and 0 when there is none; unwatched items enter neither the
\* sum, the denominator, totalWatched nor a ranking, even when rated, and
\* watched items without a rating do not enter the denominator.
C18_AverageOverWatchedRated ==
    last.op = "analyze" =>
        /\ last.analysis.averageRating =
               IF ConsumedRated = {} THEN [num |-> 0, den |-> 1]
               ELSE [num |-> SumOfRatings(ConsumedRated),
                     den |-> Cardinality(ConsumedRated)]
        /\ last.analysis.totalWatched = Cardinality(Consumed)
        /\ \A k \in 1..Len(last.analysis.favoriteGenres) :
               \E j \in Consumed :
                   GenresLike(media[j].genres, last.analysis.favoriteGenres[k])
        /\ \A k \in 1..Len(last.analysis.favoriteCreators) :
               \E j \in Consumed :
                   media[j].creator = last.analysis.favoriteCreators[k]

\* an analysis of a store holding a rated unwatched item, an unrated watched
\* item and a rated watched item
C18_Witness ==
    /\ last.op = "analyze"
    /\ \E k \in 1..Len(media) : ~media[k].watched /\ media[k].rating # Null
    /\ Consumed \ ConsumedRated # {}
    /\ ConsumedRated # {}

\* the consumed items whose genres text is neither a list nor comma-delimited
Malformed == {k \in Consumed : media[k].genres.fmt = "plain" /\ ~HasComma(media[k].genres)}

\* how often the well-formed genre lists (the likedAspects) of the consumed
\* items name it
RECURSIVE Occurrences(_, _, _)
Occurrences(S, name, field) ==
    IF S = {} THEN 0
    ELSE LET k == CHOOSE j \in S : TRUE
             names == IF field = "genres" THEN media[k].genres.tokens
                      ELSE media[k].likedAspects
         IN  Cardinality({p \in 1..Len(names) : names[p] = name})
             + Occurrences(S \ {k}, name, field)

\* C24: a consumed item whose genre field is neither a parseable list nor
\* comma-delimited contributes to no genre count (the genres ranked are
\* those named twice by the other consumed items), yet still counts in
\* totalWatched, in the average rating, in the creator ranking and in the
\* liked-aspect counts.
C24_MalformedGenresSkipped ==
    (last.op = "analyze" /\ variant \in {"stdio", "movies"}) =>
        /\ \A name \in {"Sci-Fi", "Drama", "Crime"} :
               InSeq(name, last.analysis.favoriteGenres)
                   <=> Occurrences(Consumed \ Malformed, name, "genres") >= 2
        /\ last.analysis.totalWatched = Cardinality(Consumed)
        /\ ConsumedRated # {} =>
               last.analysis.averageRating =
                   [num |-> SumOfRatings(ConsumedRated),
                    den |-> Cardinality(ConsumedRated)]
        /\ \A k \in Malformed :
               media[k].creator # NullS =>
                   InSeq(media[k].creator, last.analysis.favoriteCreators)
        /\ \A name \in {"visuals", "plot"} :
               InSeq(name, last.analysis.commonLikedAspects)
                   <=> Occurrences(Consumed, name, "liked") >= 2

\* an analysis of a store where two consumed items with malformed genres
\* share a genre name and a liked aspect, one of them rated
C24_Witness ==
    /\ last.op = "analyze" /\ variant \in {"stdio", "movies"}
    /\ \E j, k \in Malformed :
           /\ j # k
           /\ media[j].genres = media[k].genres
           /\ media[j].rating # Null
           /\ \E name \in {"visuals", "plot"} :
                  /\ InSeq(name, media[j].likedAspects)
                  /\ InSeq(name, media[k].likedAspects)
                  /\ InSeq(name, last.analysis.commonLikedAspects)

\* C19: get_smart_recommendations answers the fixed 'no recommendations'
\* message whenever no consumed item carries a rating, consumed but unrated
\* items included, and the template only when a consumed and rated item exists.
C19_FixedMessageWithoutRatedItems ==
    last.op = "smart" =>
        /\ ConsumedRated = {} => last.text = "fixed"
        /\ last.text = "template" => ConsumedRated # {}

\* the number of items a recommendations call may return for its count
RequestedCount(count) ==
    IF count = Null THEN 5 ELSE IF count > 20 THEN 20 ELSE count

\* C20: a recommendations call that scores the watchlist returns at most the
\* requested count of items (5 when omitted, never more than 20).
C20_AtMostCountRecommendations ==
    last.op = "recommend" => Len(last.ids) <= RequestedCount(last.count)

-----------------------------------------------------------------------------
\* MovieStore with persistence enabled, its calls overlapping: `media` is
\* this.movies, `ext` the content of the data file, req[r] a call waiting
\* for its Bun.write.  Writes succeed; two writes in flight to the one file
\* land in either order.

MaxStoreOps == 2

InitStore ==
    /\ variant = "memory"
    /\ media = SAMPLE_MOVIES
    /\ ext = SAMPLE_MOVIES
    /\ now = Now0
    /\ last = [ops |-> 0, method |-> "none", result |-> "none"]
    /\ req = [r \in Reqs |-> Idle]
    /\ resp = [r \in Reqs |-> NoReply]

\* save() -> saveMovies(this.movies): JSON.stringify takes the snapshot at
\* once, the call then waits for Bun.write
SaveBegin(r, m) == req' = [req EXCEPT ![r] = [pc |-> "saving", snapshot |-> m]]

StoreAddParams ==
    {[NoParams EXCEPT !.title = "Dune", !.watched = w] : w \in {"undefined", "false"}}

\* add_movie -> MovieStore.addMovie up to `await this.save()`
AddMovieCall(r, p) ==
    /\ req[r].pc = "idle"
    /\ last.ops < MaxStoreOps
    /\ media' = StoreAddMovie(media, CreateMovie(p, now))
    /\ SaveBegin(r, media')
    /\ last' = [ops |-> last.ops + 1, method |-> "add_movie", result |-> "saving"]
    /\ UNCHANGED <<variant, ext, now, resp>>

\* update_movie -> MovieStore.updateMovie up to `await this.save()`; an
\* unknown id returns null without saving
UpdateMovieCall(r, id, u) ==
    /\ req[r].pc = "idle"
    /\ last.ops < MaxStoreOps
    /\ media' = StoreUpdateMovie(media, id, u)
    /\ IF IndexOf(media, id) = 0 THEN UNCHANGED req ELSE SaveBegin(r, media')
    /\ last' = [ops |-> last.ops + 1, method |-> "update_movie",
                result |-> IF IndexOf(media, id) = 0 THEN "notfound" ELSE "saving"]
    /\ UNCHANGED <<variant, ext, now, resp>>

\* Bun.write resolves: the file holds the snapshot of this call, which returns
SaveMoviesDone(r) ==
    /\ req[r].pc = "saving"
    /\ ext' = req[r].snapshot
    /\ req' = [req EXCEPT ![r] = Idle]
    /\ last' = [last EXCEPT !.result = "saved"]
    /\ UNCHANGED <<variant, media, now, resp>>

NextStore ==
    \/ Tick
    \/ \E r \in Reqs, p \in StoreAddParams : AddMovieCall(r, p)
    \/ \E r \in Reqs, id \in {1, 2, Now0} :
           UpdateMovieCall(r, id, [rating |-> 7, watched |-> "undefined"])
    \/ \E r \in Reqs : SaveMoviesDone(r)

SpecStore == InitStore /\ [][NextStore]_vars

-----------------------------------------------------------------------------
\* The stdio proxy (simple-remote.ts): every authenticated POST /mcp writes
\* its message to the child's stdin, registers a listener on the child's
\* stdout and arms a timer.  `ext` is the child's unread stdin, last.listeners
\* the requests whose onData is registered, req[r] a request in flight with
\* the number of its message, resp[r] the HTTP response it resolved with.
\* The 30 seconds are not counted: a timer fires at some moment after it
\* was armed.

MaxCalls == 3

InitProxy ==
    /\ variant = "proxy"
    /\ media = << >>
    /\ ext = << >>
    /\ now = Now0
    /\ last = [listeners |-> {}, calls |-> 0]
    /\ req = [r \in Reqs |-> Idle]
    /\ resp = [r \in Reqs |-> NoReply]

\* fetch: stdin.write(message + "\n"), stdout.on("data", onData), setTimeout
ProxyPost(r) ==
    /\ req[r].pc = "idle"
    /\ last.calls < MaxCalls
    /\ req' = [req EXCEPT ![r] = [pc |-> "waiting", msg |-> last.calls + 1]]
    /\ resp' = [resp EXCEPT ![r] = NoReply]
    /\ ext' = Append(ext, last.calls + 1)
    /\ last' = [listeners |-> last.listeners \cup {r}, calls |-> last.calls + 1]
    /\ UNCHANGED <<variant, media, now>>

\* the listeners left once the timer of r has called stdout.off
ListenersAfterTimeoutKept(ls, r) == ls

ListenersAfterTimeout(ls, r) == ls \ {r}

\* stdout "data" with a non-blank chunk, the child's reply to the first
\* unread message: every registered onData resolves its request with it
\* and unregisters
ChildReplies ==
    /\ ext # << >>
    /\ ext' = Tail(ext)
    /\ resp' = [r \in Reqs |->
                  IF r \in last.listeners THEN [kind |-> "reply", of |-> Head(ext)]
                  ELSE resp[r]]
    /\ req' = [r \in Reqs |-> IF r \in last.listeners THEN Idle ELSE req[r]]
    /\ last' = [last EXCEPT !.listeners = {}]
    /\ UNCHANGED <<variant, media, now>>

\* the child reads a message it does not answer (a notification), or writes
\* a chunk that is blank once trimmed: no listener resolves
ChildSilent ==
    /\ ext # << >>
    /\ ext' = Tail(ext)
    /\ UNCHANGED <<variant, media, now, last, req, resp>>

\* the timer of a request still waiting fires: off(onData), 500 Request timeout
ProxyTimeout(r) ==
    /\ req[r].pc = "waiting"
    /\ resp' = [resp EXCEPT ![r] = [kind |-> "timeout", of |-> req[r].msg]]
    /\ req' = [req EXCEPT ![r] = Idle]
    /\ last' = [last EXCEPT !.listeners = ListenersAfterTimeout(@, r)]
    /\ UNCHANGED <<variant, media, ext, now>>

NextProxy ==
    \/ \E r \in Reqs : ProxyPost(r)
    \/ ChildReplies
    \/ ChildSilent
    \/ \E r \in Reqs : ProxyTimeout(r)

SpecProxy == InitProxy /\ [][NextProxy]_vars

\* timers fire
SpecProxyFair == SpecProxy /\ \A r \in Reqs : WF_vars(ProxyTimeout(r))

-----------------------------------------------------------------------------
\* SSEServerTransport.start (sse-transport): the request body is read chunk
\* by chunk; `media` is the body, a sequence of characters, ext the reader's
\* position, the buffer and the message the first handler throws on, and
\* last[h] the messages handler h was called with.  The digit is the one
\* character of a JSON text, the brace one that no JSON text is made of.

MaxBody == 4

BodyChars == {"1", "{", " ", "\n"}

MessageHandlers == 1..2

Bodies == UNION {[1..n -> BodyChars] : n \in 0..MaxBody}

\* String.prototype.split('\n')
Split(s) ==
    LET RECURSIVE Go(_, _, _)
        Go(k, piece, pieces) ==
            IF k > Len(s) THEN Append(pieces, piece)
            ELSE IF s[k] = "\n" THEN Go(k + 1, << >>, Append(pieces, piece))
            ELSE Go(k + 1, Append(piece, s[k]), pieces)
    IN Go(1, << >>, << >>)

\* String.prototype.trim
Trim(line) ==
    LET inked == {k \in 1..Len(line) : line[k] # " "}
        Min == CHOOSE k \in inked : \A j \in inked : k <= j
        Max == CHOOSE k \in inked : \A j \in inked : k >= j
    IN IF inked = {} THEN << >> ELSE SubSeq(line, Min, Max)

\* JSON.parse returns rather than throws
LineParses(line) ==
    Trim(line) # << >> /\ \A k \in 1..Len(Trim(line)) : Trim(line)[k] = "1"

\* messageHandlers.forEach(handler => handler(message)) inside the try: a
\* handler that throws ends the forEach
CallHandlers(got, message, throwsOn) ==
    [h \in MessageHandlers |->
        IF h = 1 \/ message # throwsOn THEN Append(got[h], message) ELSE got[h]]

\* for (const line of lines)
DeliverLines(got, lines, throwsOn) ==
    LET RECURSIVE Go(_, _)
        Go(k, g) ==
            IF k > Len(lines) THEN g
            ELSE IF LineParses(lines[k])
                 THEN Go(k + 1, CallHandlers(g, Trim(lines[k]), throwsOn))
                 ELSE Go(k + 1, g)
    IN Go(1, got)

\* buffer = lines.pop() || ""
CarryNothing(lines) == << >>

Carry(lines) == lines[Len(lines)]

InitSSE ==
    /\ variant = "sse"
    /\ media \in Bodies
    /\ \E t \in {<< >>, <<"1">>} :
           ext = [pc |-> "reading", pos |-> 0, buffer |-> << >>, reads |-> 0, throwsOn |-> t]
    /\ now = Now0
    /\ last = [h \in MessageHandlers |-> << >>]
    /\ req = [r \in Reqs |-> Idle]
    /\ resp = [r \in Reqs |-> NoReply]

\* reader.read() resolves with the next n characters of the body
ReadChunk(n) ==
    /\ ext.pc = "reading"
    /\ ext.pos + n <= Len(media)
    /\ LET lines == Split(ext.buffer \o SubSeq(media, ext.pos + 1, ext.pos + n))
       IN /\ ext' = [ext EXCEPT !.pos = @ + n, !.reads = @ + 1, !.buffer = Carry(lines)]
          /\ last' = DeliverLines(last, SubSeq(lines, 1, Len(lines) - 1), ext.throwsOn)
    /\ UNCHANGED <<variant, media, now, req, resp>>

\* reader.read() resolves with done
ReadDone ==
    /\ ext.pc = "reading"
    /\ ext.pos = Len(media)
    /\ ext' = [ext EXCEPT !.pc = "done"]
    /\ UNCHANGED <<variant, media, now, last, req, resp>>

\* reader.read() rejects: the error handlers are called, the loop is left
ReadFails ==
    /\ ext.pc = "reading"
    /\ ext' = [ext EXCEPT !.pc = "failed"]
    /\ UNCHANGED <<variant, media, now, last, req, resp>>

NextSSE ==
    \/ \E n \in 1..MaxBody : ReadChunk(n)
    \/ ReadDone
    \/ ReadFails

SpecSSE == InitSSE /\ [][NextSSE]_vars

-----------------------------------------------------------------------------
\* Reply envelopes and unauthenticated pages.  Two runs of one server are
\* carried side by side: `media` and ext.key are the store and the API key of
\* the first, ext.otherMedia and ext.otherKey those of the second.  `last` is
\* the reply of the first run to an authenticated call; resp[1] and resp[2]
\* are the responses of the two runs to one request without valid credential.
\* "jsonrpc" is simple-http-mcp.ts, "simple" the MovieStore server, "db"
\* http-server.ts, "stdio" the CallTool handler of the media server.

MaxEnvItems == 2

EnvelopeServers == {"stdio", "jsonrpc", "simple", "db", "unified", "readonly"}

ApiKeys == {"abc", "xyz"}

\* the id member is missing from the reply
Absent == -2

NoEnvelope ==
    [rid |-> Null, known |-> FALSE, failed |-> FALSE, status |-> Null,
     envelope |-> "none", id |-> Absent, content |-> "none"]

InitEnvelope ==
    /\ variant \in EnvelopeServers
    /\ \E n \in 0..MaxEnvItems : media = SubSeq(SAMPLE_MOVIES, 1, n)
    /\ \E k1, k2 \in ApiKeys, n \in 0..MaxEnvItems :
           ext = [key |-> k1, otherKey |-> k2, otherMedia |-> SubSeq(SAMPLE_MOVIES, 1, n)]
    /\ now = Now0
    /\ last = NoEnvelope
    /\ req = [r \in Reqs |-> Idle]
    /\ resp = [r \in Reqs |-> NoReply]

\* body.id || 1
IdOrOne(rid) == IF rid = 0 THEN 1 ELSE rid

\* the reply to an authenticated call with correlation id rid, for a known
\* tool or an unknown one, when the store call of the handler throws or not
CallReply(v, rid, known, fails) ==
    LET text == IF ~known THEN "unknown" ELSE IF fails THEN "failure" ELSE "content"
        reply(status, envelope, id, content) ==
            [rid |-> rid, known |-> known, failed |-> fails, status |-> status,
             envelope |-> envelope, id |-> id, content |-> content]
    IN CASE v = "stdio" ->
              IF known THEN reply(Null, "result", rid, text)
              ELSE reply(Null, "error", rid, "none")
         [] v = "jsonrpc" ->
              IF known /\ ~fails THEN reply(200, "result", rid, text)
              ELSE reply(200, "error", rid, "none")
         [] v \in {"simple", "db"} -> reply(200, "result", IdOrOne(rid), text)
         [] v = "unified" -> reply(200, "result", rid, text)
         [] v = "readonly" ->
              IF known THEN reply(200, "none", Absent, text)
              ELSE reply(200, "error", IdOrOne(rid), "none")

\* an authenticated, well-formed call; the MovieStore calls do not throw
EnvelopeCall(rid, known, fails) ==
    /\ fails => variant # "simple"
    /\ last' = CallReply(variant, rid, known, fails)
    /\ UNCHANGED <<variant, media, ext, now, req, resp>>

\* fetch() for a request whose credential is missing ("none") or not the
\* API key k, on a server holding the store m
Unauthenticated(v, m, k, path, method, credential) ==
    LET page(status, body, movies, key, data) ==
            [status |-> status, body |-> body, movies |-> movies, key |-> key, data |-> data]
        plain(status, body) == page(status, body, Null, NullS, << >>)
    IN CASE path = "/health" /\ v \in {"simple", "db"} -> page(200, "health", Len(m), NullS, << >>)
         [] path = "/health" /\ v \in {"jsonrpc", "unified"} -> plain(200, "health")
         [] path = "/health" /\ v = "readonly" /\ method = "GET" -> plain(200, "OK")
         [] path = "/mcp" /\ method = "POST" ->
              IF credential = "none" THEN plain(401, "Unauthorized")
              ELSE plain(WrongTokenStatus(v), "Invalid API key")
         [] path = "/" /\ method = "GET" /\ v = "simple" -> page(200, "info", Len(m), k, m)
         [] path = "/" /\ method = "GET" /\ v \in {"db", "readonly"} -> page(200, "info", Len(m), k, << >>)
         [] path = "/" /\ method = "GET" /\ v = "unified" -> plain(200, "info")
         [] OTHER -> plain(404, "Not found")

\* one request without valid credential, sent to both runs
UnauthenticatedRequest(path, method, credential) ==
    /\ variant # "stdio"
    /\ credential \notin {ext.key, ext.otherKey}
    /\ resp' = [r \in Reqs |->
                  IF r = 1 THEN Unauthenticated(variant, media, ext.key, path, method, credential)
                  ELSE Unauthenticated(variant, ext.otherMedia, ext.otherKey, path, method, credential)]
    /\ UNCHANGED <<variant, media, ext, now, last, req>>

NextEnvelope ==
    \/ \E rid \in {0, 1, 7}, known, fails \in BOOLEAN : EnvelopeCall(rid, known, fails)
    \/ \E path \in {"/health", "/mcp", "/", "/movies"}, method \in {"GET", "POST"},
          credential \in {"none", "bad"} \cup ApiKeys :
          UnauthenticatedRequest(path, method, credential)

SpecEnvelope == InitEnvelope /\ [][NextEnvelope]_vars

\* C23: search_and_add_movie / search_and_add_book / search_and_add_tv_show
\* called without the watched (read) argument store the item as not
\* consumed: watched = false and no consumption date.  Every call of
\* SpecRace leaves the argument out.
C23_DefaultNotConsumed ==
    [][\A i \in 1..Len(media') :
           i > Len(media) =>
               (~media'[i].watched /\ media'[i].dateWatched = Null)]_vars

\* every call has returned
NoneInFlight == \A r \in Reqs : req[r].pc = "idle"

\* C29: with persistence enabled, once every in-flight addMovie / updateMovie
\* has completed the persisted file holds exactly the in-memory movie list,
\* overlapping operations included.
C29_FileEqualsMemoryAtRest == NoneInFlight => ext = media

\* C27: after any sequence of add operations no two stored items share an
\* identifier, in every variant, two adds within one clock millisecond
\* included.
C27_IdsUnique ==
    \A i, j \in 1..Len(media) : media[i].id = media[j].id => i = j

\* C25: in the stdio proxy, with several authenticated requests in flight,
\* each HTTP response carries the child's reply to that request's own
\* message: no child output goes to two requests and no request receives
\* the reply to another request's message.
C25_ReplyToOwnMessage ==
    [][\A r \in Reqs :
           (resp'[r] # resp[r] /\ resp'[r].kind = "reply") =>
               /\ resp'[r].of = req[r].msg
               /\ \A q \in Reqs \ {r} : resp'[q] # resp[q] => resp'[q] # resp'[r]]_vars

\* C26: every authenticated POST /mcp to the stdio proxy eventually yields
\* exactly one HTTP response, the child's first non-blank output or else
\* the 500 'Request timeout' error, and in both cases the stdout listener
\* registered for the request is removed.
C26_OneResponseListenerRemoved ==
    /\ \A r \in Reqs : (req[r].pc = "waiting") ~> (resp[r].kind \in {"reply", "timeout"})
    /\ [](\A r \in Reqs : (r \in last.listeners) <=> (req[r].pc = "waiting"))
    /\ [][\A r \in Reqs :
              resp'[r] # resp[r] =>
                  \/ req[r].pc = "idle" /\ resp'[r] = NoReply
                  \/ /\ req[r].pc = "waiting" /\ resp[r] = NoReply
                     /\ req'[r].pc = "idle"
                     /\ resp'[r].kind \in {"reply", "timeout"}]_vars

\* one request answered by its timer, another by the child's output, and
\* no listener left
C26_Witness ==
    /\ \E r, q \in Reqs : resp[r].kind = "timeout" /\ resp[q].kind = "reply"
    /\ last.listeners = {}
    /\ last.calls >= 2

\* the messages of the newline-terminated, non-blank, valid-JSON lines of a
\* text, in order
LineMessages(text) ==
    LET lines == Split(text)
        RECURSIVE Go(_, _)
        Go(k, out) ==
            IF k >= Len(lines) THEN out
            ELSE Go(k + 1, IF LineParses(lines[k]) THEN Append(out, Trim(lines[k])) ELSE out)
    IN Go(1, << >>)

BodyRead == SubSeq(media, 1, ext.pos)

\* C28 as stated: every registered message handler has been called exactly
\* once, in body order, with each newline-terminated, non-blank, valid-JSON
\* line of the body read so far, whatever the chunks were.
C28_EveryHandlerEveryLine ==
    \A h \in MessageHandlers : last[h] = LineMessages(BodyRead)

\* C28: SSEServerTransport.start calls the first registered message handler
\* exactly once and in body order with each newline-terminated, non-blank,
\* valid-JSON line of the body read so far, whatever the chunks were, and
\* skips unparseable lines; a later handler receives the same messages except
\* those on which an earlier handler threw.
C28_DeliveredUpToThrowingHandler ==
    /\ last[1] = LineMessages(BodyRead)
    /\ \A h \in MessageHandlers \ {1} :
           last[h] = SelectSeq(LineMessages(BodyRead), LAMBDA m : m # ext.throwsOn)

\* an unparseable line, then a valid one on which the first handler throws,
\* read one character at a time
C28_Witness ==
    /\ media = <<"{", "\n", "1", "\n">>
    /\ ext.pc = "done"
    /\ ext.reads = Len(media)
    /\ ext.throwsOn = <<"1">>
    /\ last[1] = << <<"1">> >>
    /\ last[2] = << >>

\* C21: the handler of a known tool turns a store call that throws into a
\* success result whose content is a text message: the caller receives
\* neither a JSON-RPC error object nor a status other than 200.
C21_FailureIsTextResult ==
    (last.known /\ last.failed) =>
        /\ last.envelope # "error"
        /\ last.content = "failure"
        /\ last.status \in {Null, 200}

\* C22: in every HTTP variant the reply to an authenticated, well-formed
\* call carries the correlation id of the request, for every id value
\* (0 included), for result replies and for error replies.
C22_ReplyCarriesRequestId ==
    (variant # "stdio" /\ last.rid # Null) => last.id = last.rid

\* C30: two runs that differ only in the stored items or in the API key give
\* the same response to a request that lacks a valid credential, whatever
\* its path and method.
C30_UnauthenticatedResponseIndependent ==
    resp[1] = resp[2]

====
